---- MODULE Spec2Model ----
(***************************************************************************)
(* Model of the sports-science literature pipeline of maromba_ai:          *)
(* the Deduplicator (processors/deduplicator.py) and the request wrapper   *)
(* of BaseCollector (collectors/base_collector.py).                        *)
(*                                                                         *)
(* Python strings are finite sequences of one-character strings, so that   *)
(* the normalisations (lower-casing, regex substitutions, splitting,       *)
(* sorting) are computed character by character as the code does.  The     *)
(* records hold TLA+ strings; Chars spells each of them out.               *)
(***************************************************************************)
EXTENDS Integers, Sequences, FiniteSets, TLC

\* None in a string field, and None in an integer field (year, citation_count:
\* the values of the model are never negative)
None == "None"
NoInt == -1

\* the least member of a set of positions, 0 for the empty set
First(hits) == IF hits = {} THEN 0 ELSE CHOOSE k \in hits : \A k2 \in hits : k <= k2

Max(a, b) == IF a >= b THEN a ELSE b

----------------------------------------------------------------------------
(* Characters *)

LowerLetters == <<"a", "b", "c", "d", "e", "f", "g", "h", "i", "j", "k", "l", "m",
                  "n", "o", "p", "q", "r", "s", "t", "u", "v", "w", "x", "y", "z">>
UpperLetters == <<"A", "B", "C", "D", "E", "F", "G", "H", "I", "J", "K", "L", "M",
                  "N", "O", "P", "Q", "R", "S", "T", "U", "V", "W", "X", "Y", "Z">>
DigitChars == {"0", "1", "2", "3", "4", "5", "6", "7", "8", "9"}
LowerSet == {LowerLetters[i] : i \in 1..26}
UpperSet == {UpperLetters[i] : i \in 1..26}

\* The characters of the model in code-point order (what sorted() compares).
AsciiOrder == <<" ", "!", "#", ",", "-", ".", "/", "0", "1", "2", "3", "4", "5", "6", "7", "8", "9", ":", "A", "B", "C", "D", "E", "F", "G", "H", "I", "J", "K", "L", "M", "N", "O", "P", "Q", "R", "S", "T", "U", "V", "W", "X", "Y", "Z", "_", "a", "b", "c", "d", "e", "f", "g", "h", "i", "j", "k", "l", "m", "n", "o", "p", "q", "r", "s", "t", "u", "v", "w", "x", "y", "z", "|">>

Ord(c) == CHOOSE i \in 1..Len(AsciiOrder) : AsciiOrder[i] = c

\* str.lower() on one character
Lower(c) == IF c \in UpperSet
            THEN LowerLetters[CHOOSE i \in 1..26 : UpperLetters[i] = c]
            ELSE c

LowerStr(s) == [i \in 1..Len(s) |-> Lower(s[i])]

\* regex \s and \w
IsSpace(c) == c = " "
IsWord(c) == c \in LowerSet \cup UpperSet \cup DigitChars \cup {"_"}
NotSpace(c) == ~IsSpace(c)

\* the positions of s, in order
Positions(s) == [i \in 1..Len(s) |-> i]

\* str.strip(): from the first to the last non-whitespace character
Strip(s) ==
    LET solid == {i \in 1..Len(s) : ~IsSpace(s[i])}
    IN IF solid = {} THEN <<>>
       ELSE SubSeq(s, CHOOSE i \in solid : \A j \in solid : i <= j,
                      CHOOSE i \in solid : \A j \in solid : i >= j)

\* re.sub(r'\s+', ' ', s): each run of whitespace becomes one space
CollapseSpaces(s) ==
    LET Kept(i) == ~IsSpace(s[i]) \/ i = 1 \/ ~IsSpace(s[i - 1])
        kept == SelectSeq(Positions(s), Kept)
    IN [k \in 1..Len(kept) |-> IF IsSpace(s[kept[k]]) THEN " " ELSE s[kept[k]]]

\* re.sub(r'\s+', '', s)
RemoveSpaces(s) == SelectSeq(s, NotSpace)

\* str.split(): the maximal runs of non-whitespace characters
Split(s) ==
    LET Starts(i) == ~IsSpace(s[i]) /\ (i = 1 \/ IsSpace(s[i - 1]))
        Ends(i) == ~IsSpace(s[i]) /\ (i = Len(s) \/ IsSpace(s[i + 1]))
        starts == SelectSeq(Positions(s), Starts)
        ends == SelectSeq(Positions(s), Ends)
    IN [k \in 1..Len(starts) |-> SubSeq(s, starts[k], ends[k])]

\* sep.join(parts)
RECURSIVE Join(_, _)
Join(parts, sep) ==
    IF parts = <<>> THEN <<>>
    ELSE IF Len(parts) = 1 THEN parts[1]
    ELSE parts[1] \o sep \o Join(Tail(parts), sep)

StartsWith(s, p) == Len(s) >= Len(p) /\ SubSeq(s, 1, Len(p)) = p

\* s[:n]
Take(s, n) == SubSeq(s, 1, IF Len(s) < n THEN Len(s) ELSE n)

\* s < t as Python compares strings (code points, then length)
RECURSIVE StrLess(_, _)
StrLess(s, t) ==
    IF t = <<>> THEN FALSE
    ELSE IF s = <<>> THEN TRUE
    ELSE IF Head(s) = Head(t) THEN StrLess(Tail(s), Tail(t))
    ELSE Ord(Head(s)) < Ord(Head(t))

\* sorted(strings): list.sort is stable and equal strings are indistinguishable
RECURSIVE InsertSorted(_, _)
InsertSorted(sorted, x) ==
    IF sorted = <<>> THEN <<x>>
    ELSE IF StrLess(x, Head(sorted)) THEN <<x>> \o sorted
    ELSE <<Head(sorted)>> \o InsertSorted(Tail(sorted), x)

RECURSIVE Sorted(_)
Sorted(strs) == IF strs = <<>> THEN <<>>
                ELSE InsertSorted(Sorted(SubSeq(strs, 1, Len(strs) - 1)), strs[Len(strs)])

\* whether pat occurs in s (Python's "pat in s")
Contains(s, pat) == \E i \in 1..(Len(s) - Len(pat) + 1) : SubSeq(s, i, i + Len(pat) - 1) = pat

Repeat(c, n) == [i \in 1..n |-> c]

----------------------------------------------------------------------------
(* The strings of the model, spelled out *)

TitleStrings == {"The Run!", "run ab", "Run: CD", "abcdefghijklm", "abcdefghinopq", "abcdefg", "The", "Of an", "zzzzzzzzzzzzzzzzzzzzzzzzzzzzzzzzzzzzzzzzzzzzzzzzzzaaaaaaaaaa", "zzzzzzzzzzzzzzzzzzzzzzzzzzzzzzzzzzzzzzzzzzzzzzzzzzbbbbbbbbbb"}

DoiStrings == {"10.1/x", "DOI:10.1/X", "https://doi.org/10.1/x", "doi: 10.1/x", "10.2/y", "http://dx.doi.org/10.2/Y"}

AuthorNames == {"Smith, John", "Smith, J", "John Smith", "Doe, A", "Doe, Alice", "Brown, B", "B. Brown", "Lee, C", "Dr. Bob Brown", "John Smith PhD", "Madonna"}

JournalStrings == {"J Sports Sci", "bioRxiv Preprints"}

SourceStrings == {"arxiv", "pubmed", "semantic_scholar"}

Chars ==
    ("The Run!" :> <<"T", "h", "e", " ", "R", "u", "n", "!">>)
 @@ ("run ab" :> <<"r", "u", "n", " ", "a", "b">>)
 @@ ("Run: CD" :> <<"R", "u", "n", ":", " ", "C", "D">>)
 @@ ("abcdefghijklm" :> <<"a", "b", "c", "d", "e", "f", "g", "h", "i", "j", "k", "l", "m">>)
 @@ ("abcdefghinopq" :> <<"a", "b", "c", "d", "e", "f", "g", "h", "i", "n", "o", "p", "q">>)
 @@ ("abcdefg" :> <<"a", "b", "c", "d", "e", "f", "g">>)
 @@ ("The" :> <<"T", "h", "e">>)
 @@ ("Of an" :> <<"O", "f", " ", "a", "n">>)
 @@ ("zzzzzzzzzzzzzzzzzzzzzzzzzzzzzzzzzzzzzzzzzzzzzzzzzzaaaaaaaaaa" :> (Repeat("z", 50) \o Repeat("a", 10)))
 @@ ("zzzzzzzzzzzzzzzzzzzzzzzzzzzzzzzzzzzzzzzzzzzzzzzzzzbbbbbbbbbb" :> (Repeat("z", 50) \o Repeat("b", 10)))
 @@
    ("10.1/x" :> <<"1", "0", ".", "1", "/", "x">>)
 @@ ("DOI:10.1/X" :> <<"D", "O", "I", ":", "1", "0", ".", "1", "/", "X">>)
 @@ ("https://doi.org/10.1/x" :> <<"h", "t", "t", "p", "s", ":", "/", "/", "d", "o", "i", ".", "o", "r", "g", "/", "1", "0", ".", "1", "/", "x">>)
 @@ ("doi: 10.1/x" :> <<"d", "o", "i", ":", " ", "1", "0", ".", "1", "/", "x">>)
 @@ ("10.2/y" :> <<"1", "0", ".", "2", "/", "y">>)
 @@ ("http://dx.doi.org/10.2/Y" :> <<"h", "t", "t", "p", ":", "/", "/", "d", "x", ".", "d", "o", "i", ".", "o", "r", "g", "/", "1", "0", ".", "2", "/", "Y">>)
 @@
    ("Smith, John" :> <<"S", "m", "i", "t", "h", ",", " ", "J", "o", "h", "n">>)
 @@ ("Smith, J" :> <<"S", "m", "i", "t", "h", ",", " ", "J">>)
 @@ ("John Smith" :> <<"J", "o", "h", "n", " ", "S", "m", "i", "t", "h">>)
 @@ ("Doe, A" :> <<"D", "o", "e", ",", " ", "A">>)
 @@ ("Doe, Alice" :> <<"D", "o", "e", ",", " ", "A", "l", "i", "c", "e">>)
 @@ ("Brown, B" :> <<"B", "r", "o", "w", "n", ",", " ", "B">>)
 @@ ("B. Brown" :> <<"B", ".", " ", "B", "r", "o", "w", "n">>)
 @@ ("Lee, C" :> <<"L", "e", "e", ",", " ", "C">>)
 @@ ("Dr. Bob Brown" :> <<"D", "r", ".", " ", "B", "o", "b", " ", "B", "r", "o", "w", "n">>)
 @@ ("John Smith PhD" :> <<"J", "o", "h", "n", " ", "S", "m", "i", "t", "h", " ", "P", "h", "D">>)
 @@ ("Madonna" :> <<"M", "a", "d", "o", "n", "n", "a">>)
 @@
    ("J Sports Sci" :> <<"J", " ", "S", "p", "o", "r", "t", "s", " ", "S", "c", "i">>)
 @@ ("bioRxiv Preprints" :> <<"b", "i", "o", "R", "x", "i", "v", " ", "P", "r", "e", "p", "r", "i", "n", "t", "s">>)
 @@ ("arxiv" :> <<"a", "r", "x", "i", "v">>)
 @@ ("" :> <<>>)

----------------------------------------------------------------------------
(* Deduplicator: normalisations (deduplicator.py 176-265) *)

\* the alternatives of the prefix regex of _normalize_doi, in its order
DoiPrefixes == <<
    <<"d", "o", "i", ":">>,
    <<"h", "t", "t", "p", ":", "/", "/", "d", "o", "i", ".", "o", "r", "g", "/">>,
    <<"h", "t", "t", "p", "s", ":", "/", "/", "d", "o", "i", ".", "o", "r", "g", "/">>,
    <<"h", "t", "t", "p", ":", "/", "/", "d", "x", ".", "d", "o", "i", ".", "o", "r", "g", "/">>,
    <<"h", "t", "t", "p", "s", ":", "/", "/", "d", "x", ".", "d", "o", "i", ".", "o", "r", "g", "/">> >>

\* re.sub(r'^(doi:|https?://doi\.org/|https?://dx\.doi\.org/)', '', doi)
StripDoiPrefix(s) ==
    LET Without(k) == IF k = 0 THEN s ELSE SubSeq(s, Len(DoiPrefixes[k]) + 1, Len(s))
    IN Without(First({k \in 1..Len(DoiPrefixes) : StartsWith(s, DoiPrefixes[k])}))

\* _normalize_doi
NormalizeDoi(doi) ==
    IF doi = <<>> THEN <<>>
    ELSE RemoveSpaces(StripDoiPrefix(Strip(LowerStr(doi))))

StopWords == {<<"a">>, <<"a", "n">>, <<"t", "h", "e">>, <<"a", "n", "d">>, <<"o", "r">>,
              <<"b", "u", "t">>, <<"i", "n">>, <<"o", "n">>, <<"a", "t">>, <<"t", "o">>,
              <<"f", "o", "r">>, <<"o", "f">>, <<"w", "i", "t", "h">>, <<"b", "y">>}

NotStopWord(w) == w \notin StopWords

\* re.sub(r'[^\w\s]', ' ', s)
PunctuationToSpace(s) == [i \in 1..Len(s) |-> IF IsWord(s[i]) \/ IsSpace(s[i]) THEN s[i] ELSE " "]

\* _normalize_title
NormalizeTitle(title) ==
    IF title = <<>> THEN <<>>
    ELSE LET cleaned == Strip(CollapseSpaces(PunctuationToSpace(LowerStr(title))))
         IN Join(SelectSeq(Split(cleaned), NotStopWord), <<" ">>)

\* the alternatives of the degree regex of _normalize_author_name (IGNORECASE)
Degrees == << <<"d", "r">>, <<"p", "r", "o", "f">>, <<"p", "h", "d">>,
              <<"m", "d">>, <<"m", "s", "c">>, <<"b", "s", "c">> >>

\* regex \b between s[i-1] and s[i]
Boundary(s, i) ==
    LET before == i - 1 >= 1 /\ i - 1 <= Len(s) /\ IsWord(s[i - 1])
        after == i >= 1 /\ i <= Len(s) /\ IsWord(s[i])
    IN before # after

\* length of the match of alternative k of \b(Dr|...)\.?\b at position i, 0 if none:
\* the optional dot is tried first (greedy), then the match without it
DegreeMatchLenOf(s, i, k) ==
    LET e == i + Len(Degrees[k])
    IN IF ~(e - 1 <= Len(s) /\ LowerStr(SubSeq(s, i, e - 1)) = Degrees[k]) THEN 0
       ELSE IF e <= Len(s) /\ s[e] = "." /\ Boundary(s, e + 1) THEN Len(Degrees[k]) + 1
       ELSE IF Boundary(s, e) THEN Len(Degrees[k])
       ELSE 0

DegreeMatchLen(s, i) ==
    LET LenOfFirst(k) == IF k = 0 THEN 0 ELSE DegreeMatchLenOf(s, i, k)
    IN IF ~Boundary(s, i) THEN 0
       ELSE LenOfFirst(First({k \in 1..Len(Degrees) : DegreeMatchLenOf(s, i, k) > 0}))

\* re.sub(r'\b(Dr|Prof|PhD|MD|MSc|BSc)\.?\b', '', name, flags=re.IGNORECASE)
RECURSIVE RemoveDegreesFrom(_, _)
RemoveDegreesFrom(s, i) ==
    LET After(matched) ==
            IF matched > 0 THEN RemoveDegreesFrom(s, i + matched)
            ELSE <<s[i]>> \o RemoveDegreesFrom(s, i + 1)
    IN IF i > Len(s) THEN <<>> ELSE After(DegreeMatchLen(s, i))

RemoveDegrees(s) == RemoveDegreesFrom(s, 1)

\* s.split(',')
RECURSIVE SplitCommaFrom(_, _, _)
SplitCommaFrom(s, cur, acc) ==
    IF s = <<>> THEN Append(acc, cur)
    ELSE IF Head(s) = "," THEN SplitCommaFrom(Tail(s), <<>>, Append(acc, cur))
    ELSE SplitCommaFrom(Tail(s), Append(cur, Head(s)), acc)

SplitComma(s) == SplitCommaFrom(s, <<>>, <<>>)

\* the "First Last" branch of _normalize_author_name (lines 260-265)
FirstLastKey(name) ==
    LET KeyOfParts(parts) ==
            IF Len(parts) >= 2 THEN <<parts[1][1]>> \o <<" ">> \o parts[Len(parts)]
            ELSE name
    IN KeyOfParts(Split(name))

\* _normalize_author_name
NormalizeAuthorName(raw) ==
    LET LastFirstKey(last_name, first_name) ==
            IF first_name # <<>> THEN <<first_name[1]>> \o <<" ">> \o last_name
            ELSE last_name
        KeyOfParts(name, parts) ==
            IF "," \in {name[i] : i \in 1..Len(name)} /\ Len(parts) = 2
            THEN LastFirstKey(Strip(parts[1]), Strip(parts[2]))
            ELSE FirstLastKey(name)
        KeyOf(name) == KeyOfParts(name, SplitComma(name))
    IN IF raw = <<>> THEN <<>>
       ELSE KeyOf(CollapseSpaces(Strip(LowerStr(RemoveDegrees(raw)))))

----------------------------------------------------------------------------
(* fuzzywuzzy.fuzz as called by _calculate_title_similarity (lines 211-213) *)

SetMax(S) == CHOOSE x \in S : \A y \in S : y <= x

\* One row of the longest-common-subsequence table.  prev[j + 1] is the length
\* for the characters of a before c and the first j characters of b; the cell
\* for c and the first j characters of b is the greatest, over k <= j, of
\* prev[k] + 1 where c = b[k] and of prev[k + 1] elsewhere.
LcsRow(prev, c, b) ==
    [j1 \in 1..(Len(b) + 1) |->
        SetMax({0} \cup {IF c = b[k] THEN prev[k] + 1 ELSE prev[k + 1] : k \in 1..(j1 - 1)})]

RECURSIVE LcsRows(_, _, _, _)
LcsRows(a, b, i, prev) ==
    IF i > Len(a) THEN prev[Len(b) + 1]
    ELSE LET row == LcsRow(prev, a[i], b) @@ <<>>
         IN IF Len(row) = Len(b) + 1 THEN LcsRows(a, b, i + 1, row) ELSE 0

\* number of characters the sequence matcher pairs up (the rows run over the
\* shorter string)
MatchingChars(a, b) ==
    IF Len(a) <= Len(b) THEN LcsRows(a, b, 1, [j \in 1..(Len(b) + 1) |-> 0])
    ELSE LcsRows(b, a, 1, [j \in 1..(Len(a) + 1) |-> 0])

\* int(round(num / den)), Python 3 rounding (ties to even)
RoundHalfEven(num, den) ==
    LET q == num \div den
        r == num % den
    IN IF 2 * r < den THEN q
       ELSE IF 2 * r > den THEN q + 1
       ELSE IF q % 2 = 0 THEN q ELSE q + 1

\* fuzz.ratio: 100 for equal strings, 0 for an empty one, else 100 * 2M/T rounded
Ratio(s1, s2) ==
    IF s1 = s2 THEN 100
    ELSE IF s1 = <<>> \/ s2 = <<>> THEN 0
    ELSE RoundHalfEven(200 * MatchingChars(s1, s2), Len(s1) + Len(s2))

\* utils.full_process: non-word characters to spaces, lower-case, strip
FullProcess(s) == Strip(LowerStr([i \in 1..Len(s) |-> IF IsWord(s[i]) THEN s[i] ELSE " "]))

\* fuzz.token_sort_ratio
TokenSortRatio(s1, s2) ==
    Ratio(Strip(Join(Sorted(Split(FullProcess(s1))), <<" ">>)),
          Strip(Join(Sorted(Split(FullProcess(s2))), <<" ">>)))

\* sorted(set(tokens)): a sorted list with its repeated members dropped
RECURSIVE Dedup(_)
Dedup(strs) ==
    IF strs = <<>> THEN <<>>
    ELSE LET rest == Dedup(Tail(strs))
         IN IF \E i \in 1..Len(rest) : rest[i] = Head(strs) THEN rest ELSE <<Head(strs)>> \o rest

\* fuzz.token_set_ratio
TokenSetRatio(s1, s2) ==
    LET Has(tokens, w) == \E i \in 1..Len(tokens) : tokens[i] = w
        Sect(tokens1, tokens2) ==
            LET In2(w) == Has(tokens2, w) IN SelectSeq(tokens1, In2)
        Diff(tokens1, tokens2) ==
            LET NotIn2(w) == ~Has(tokens2, w) IN SelectSeq(tokens1, NotIn2)
        Joined(tokens) == Join(Sorted(tokens), <<" ">>)
        Best(sect, combined_1to2, combined_2to1) ==
            Max(Ratio(sect, combined_1to2),
                Max(Ratio(sect, combined_2to1), Ratio(combined_1to2, combined_2to1)))
        OfSorted(sorted_sect, sorted_1to2, sorted_2to1) ==
            Best(Strip(sorted_sect),
                 Strip(sorted_sect \o <<" ">> \o sorted_1to2),
                 Strip(sorted_sect \o <<" ">> \o sorted_2to1))
        OfTokens(tokens1, tokens2) ==
            OfSorted(Joined(Sect(tokens1, tokens2)), Joined(Diff(tokens1, tokens2)),
                     Joined(Diff(tokens2, tokens1)))
        OfProcessed(p1, p2) ==
            IF p1 = <<>> \/ p2 = <<>> THEN 0
            ELSE OfTokens(Dedup(Split(p1)), Dedup(Split(p2)))
    IN OfProcessed(FullProcess(s1), FullProcess(s2))

\* _calculate_title_similarity, in percent (the code divides each ratio by 100.0)
CalculateTitleSimilarity(title1, title2) ==
    IF title1 = <<>> \/ title2 = <<>> THEN 0
    ELSE Max(Ratio(title1, title2), Max(TokenSortRatio(title1, title2), TokenSetRatio(title1, title2)))

\* _calculate_author_similarity as <<intersection, union>>; <<0, 1>> is 0.0
CalculateAuthorSimilarity(authors1, authors2) ==
    IF authors1 = <<>> \/ authors2 = <<>> THEN <<0, 1>>
    ELSE LET Normalized(authors) ==
                 {NormalizeAuthorName(Chars[authors[i]]) : i \in 1..Len(authors)}
             Jaccard(set1, set2) ==
                 IF Cardinality(set1 \cup set2) = 0 THEN <<0, 1>>
                 ELSE <<Cardinality(set1 \cap set2), Cardinality(set1 \cup set2)>>
         IN Jaccard(Normalized(authors1), Normalized(authors2))

----------------------------------------------------------------------------
(* PaperMetadata (base_collector.py 10-25), the fields the Deduplicator reads *)

Paper(title, authors, doi, source, journal, citation_count, year, abstract) ==
    [title |-> title, authors |-> authors, doi |-> doi, source |-> source,
     journal |-> journal, citation_count |-> citation_count, year |-> year,
     abstract |-> abstract]

\* Python truthiness of an Optional[str] field and of an Optional[int] field
Truthy(v) == v # None /\ v # ""
TruthyInt(v) == v # NoInt /\ v # 0

\* "x or 0" for an Optional[int]
OrZero(v) == IF TruthyInt(v) THEN v ELSE 0

\* the author lists of the model
NoAuthors == <<>>
Authors2 == <<"Smith, J", "Doe, A">>
Authors3 == <<"Smith, John", "Doe, A", "Brown, B">>
Authors4 == <<"John Smith", "Doe, Alice", "B. Brown", "Lee, C">>
AuthorsDr == <<"Dr. Bob Brown", "John Smith PhD", "Madonna">>
AuthorLists == {NoAuthors, Authors2, Authors3, Authors4, AuthorsDr}

\* The normalisations and similarities are pure; they are tabulated once over
\* the strings of the model (f @@ <<>> is f, as an explicit table).
NormalizedDoiOf == [d \in DoiStrings |-> NormalizeDoi(Chars[d])] @@ <<>>

NormalizedTitleOf == [t \in TitleStrings |-> NormalizeTitle(Chars[t])] @@ <<>>

TitleSimilarityOf ==
    [p \in TitleStrings \X TitleStrings |->
        CalculateTitleSimilarity(NormalizedTitleOf[p[1]], NormalizedTitleOf[p[2]])] @@ <<>>

AuthorSimilarityOf ==
    [p \in AuthorLists \X AuthorLists |-> CalculateAuthorSimilarity(p[1], p[2])] @@ <<>>

----------------------------------------------------------------------------
(* Deduplicator: conflict resolution (deduplicator.py 267-348) *)

\* source == 'arxiv' or 'preprint' in (journal or '').lower()
IsPreprint(p) ==
    \/ p.source = "arxiv"
    \/ Contains(LowerStr(Chars[IF Truthy(p.journal) THEN p.journal ELSE ""]),
                <<"p", "r", "e", "p", "r", "i", "n", "t">>)

\* Faulty variant of ShouldKeepExisting: the citation counts are compared
\* before the preprint status.
ShouldKeepExistingCitationsFirst(existing, new) ==
    IF Truthy(existing.doi) /\ ~Truthy(new.doi) THEN TRUE
    ELSE IF Truthy(new.doi) /\ ~Truthy(existing.doi) THEN FALSE
    ELSE IF OrZero(existing.citation_count) # OrZero(new.citation_count)
         THEN OrZero(existing.citation_count) > OrZero(new.citation_count)
    ELSE IF ~IsPreprint(existing) /\ IsPreprint(new) THEN TRUE
    ELSE IF IsPreprint(existing) /\ ~IsPreprint(new) THEN FALSE
    ELSE IF TruthyInt(existing.year) /\ TruthyInt(new.year) /\ existing.year # new.year
         THEN existing.year > new.year
    ELSE IF Truthy(existing.abstract) /\ ~Truthy(new.abstract) THEN TRUE
    ELSE IF Truthy(new.abstract) /\ ~Truthy(existing.abstract) THEN FALSE
    ELSE TRUE

\* _should_keep_existing
ShouldKeepExisting(existing, new) ==
    IF Truthy(existing.doi) /\ ~Truthy(new.doi) THEN TRUE
    ELSE IF Truthy(new.doi) /\ ~Truthy(existing.doi) THEN FALSE
    ELSE IF ~IsPreprint(existing) /\ IsPreprint(new) THEN TRUE
    ELSE IF IsPreprint(existing) /\ ~IsPreprint(new) THEN FALSE
    ELSE IF OrZero(existing.citation_count) # OrZero(new.citation_count)
         THEN OrZero(existing.citation_count) > OrZero(new.citation_count)
    ELSE IF TruthyInt(existing.year) /\ TruthyInt(new.year) /\ existing.year # new.year
         THEN existing.year > new.year
    ELSE IF Truthy(existing.abstract) /\ ~Truthy(new.abstract) THEN TRUE
    ELSE IF Truthy(new.abstract) /\ ~Truthy(existing.abstract) THEN FALSE
    ELSE TRUE

\* sort_key of _choose_best_version, times 10 (the code adds year * 0.1)
SortKey(p) ==
      (IF Truthy(p.doi) THEN 1000 ELSE 0)
    + (IF ~IsPreprint(p) THEN 500 ELSE 0)
    + 10 * OrZero(p.citation_count)
    + (IF TruthyInt(p.year) THEN p.year ELSE 0)
    + (IF Truthy(p.abstract) THEN 100 ELSE 0)

\* _choose_best_version: max(papers, key=sort_key) is the first paper of the
\* greatest key
ChooseBestVersion(h, group) ==
    LET best == CHOOSE i \in 1..Len(group) :
                    /\ \A j \in 1..Len(group) : SortKey(h[group[j]]) <= SortKey(h[group[i]])
                    /\ \A j \in 1..(i - 1) : SortKey(h[group[j]]) < SortKey(h[group[i]])
    IN group[best]

\* _create_paper_key
CreatePaperKey(p) ==
    LET NonEmpty(k) == k # <<>>
        AuthorKeys(first3) ==
            SelectSeq([i \in 1..Len(first3) |-> NormalizeAuthorName(Chars[first3[i]])], NonEmpty)
    IN Take(NormalizedTitleOf[p.title], 50) \o <<"#">>
           \o Join(Sorted(AuthorKeys(Take(p.authors, 3))), <<"|">>)

PaperKeyOf ==
    [p \in TitleStrings \X AuthorLists |->
        CreatePaperKey([title |-> p[1], authors |-> p[2]])] @@ <<>>

PaperKey(p) == PaperKeyOf[<<p.title, p.authors>>]

----------------------------------------------------------------------------
(* Deduplicator: the four passes (deduplicator.py 48-174) *)

\* defaults of Deduplicator.__init__, in percent, and the title bound of the
\* author+title pass
TitleSimilarityThreshold == 85
AuthorSimilarityThreshold == 70
AuthorTitleTitleThreshold == 70

\* a pass returns the surviving list and the number of times it counted a duplicate
PassResult(unique, found) == [unique |-> unique, found |-> found]

\* Faulty variant of Kept: the record is appended twice.
KeptTwice(acc, oid) == [acc EXCEPT !.unique = Append(Append(@, oid), oid)]

\* unique_papers.append(paper)
Kept(acc, oid) == [acc EXCEPT !.unique = Append(@, oid)]
Dropped(acc) == [acc EXCEPT !.found = @ + 1]

\* list.remove(x): drops the first element equal to x (dataclass equality
\* compares the fields)
ListRemove(h, list, oid) ==
    LET first == CHOOSE k \in 1..Len(list) :
                     /\ h[list[k]] = h[oid]
                     /\ \A j \in 1..(k - 1) : h[list[j]] # h[oid]
    IN SubSeq(list, 1, first - 1) \o SubSeq(list, first + 1, Len(list))

\* Faulty variant of DoiLoop: the DOIs are compared as written, without
\* _normalize_doi.
RECURSIVE DoiLoopRaw(_, _, _, _, _)
DoiLoopRaw(h, papers, i, seen_dois, acc) ==
    IF i > Len(papers) THEN acc
    ELSE IF ~Truthy(h[papers[i]].doi)
         THEN DoiLoopRaw(h, papers, i + 1, seen_dois, Kept(acc, papers[i]))
    ELSE IF h[papers[i]].doi \notin seen_dois
         THEN DoiLoopRaw(h, papers, i + 1, seen_dois \cup {h[papers[i]].doi},
                         Kept(acc, papers[i]))
    ELSE DoiLoopRaw(h, papers, i + 1, seen_dois, Dropped(acc))

\* the loop of _remove_doi_duplicates
RECURSIVE DoiLoop(_, _, _, _, _)
DoiLoop(h, papers, i, seen_dois, acc) ==
    IF i > Len(papers) THEN acc
    ELSE IF ~Truthy(h[papers[i]].doi)
         THEN DoiLoop(h, papers, i + 1, seen_dois, Kept(acc, papers[i]))
    ELSE IF NormalizedDoiOf[h[papers[i]].doi] \notin seen_dois
         THEN DoiLoop(h, papers, i + 1, seen_dois \cup {NormalizedDoiOf[h[papers[i]].doi]},
                      Kept(acc, papers[i]))
    ELSE DoiLoop(h, papers, i + 1, seen_dois, Dropped(acc))

\* Faulty variant of RemoveDoiDuplicates: the last record of each DOI is the
\* one kept.
RemoveDoiDuplicatesKeepingLast(h, papers) ==
    LET Reversed(s) == [k \in 1..Len(s) |-> s[Len(s) + 1 - k]]
        r == DoiLoop(h, Reversed(papers), 1, {}, PassResult(<<>>, 0))
    IN PassResult(Reversed(r.unique), r.found)

\* _remove_doi_duplicates
RemoveDoiDuplicates(h, papers) == DoiLoop(h, papers, 1, {}, PassResult(<<>>, 0))

\* similarity >= threshold for a similarity <<numerator, denominator>> and a
\* threshold in percent
AtLeast(similarity, percent) == 100 * similarity[1] >= percent * similarity[2]

\* the condition of line 85 for an incoming paper and an accepted one
TitleDuplicate(new, existing) ==
    TitleSimilarityOf[<<new.title, existing.title>>] >= TitleSimilarityThreshold

\* Faulty variant of AuthorTitleDuplicate: the title bound is exclusive.
AuthorTitleDuplicateStrict(new, existing) ==
    /\ AtLeast(AuthorSimilarityOf[<<new.authors, existing.authors>>], AuthorSimilarityThreshold)
    /\ TitleSimilarityOf[<<new.title, existing.title>>] > AuthorTitleTitleThreshold

\* the condition of lines 125-126
AuthorTitleDuplicate(new, existing) ==
    /\ AtLeast(AuthorSimilarityOf[<<new.authors, existing.authors>>], AuthorSimilarityThreshold)
    /\ TitleSimilarityOf[<<new.title, existing.title>>] >= AuthorTitleTitleThreshold

\* the accepted paper at which the inner loop over unique_papers breaks: the
\* first one the incoming paper duplicates (0: the loop runs to its end)
FirstTitleDuplicate(h, unique, oid) ==
    First({k \in 1..Len(unique) : TitleDuplicate(h[oid], h[unique[k]])})

FirstAuthorTitleDuplicate(h, unique, oid) ==
    First({k \in 1..Len(unique) : AuthorTitleDuplicate(h[oid], h[unique[k]])})

\* one iteration of the outer loop of passes 2 and 3, the incoming paper being
\* a duplicate of unique[k] (k = 0: of none)
Resolve(h, acc, oid, k) ==
    IF k = 0 THEN Kept(acc, oid)
    ELSE IF ShouldKeepExisting(h[acc.unique[k]], h[oid]) THEN Dropped(acc)
    ELSE PassResult(Append(ListRemove(h, acc.unique, acc.unique[k]), oid), acc.found + 1)

RECURSIVE TitleLoop(_, _, _, _)
TitleLoop(h, papers, i, acc) ==
    IF i > Len(papers) THEN acc
    ELSE TitleLoop(h, papers, i + 1,
                   Resolve(h, acc, papers[i], FirstTitleDuplicate(h, acc.unique, papers[i])))

\* _remove_title_duplicates
RemoveTitleDuplicates(h, papers) == TitleLoop(h, papers, 1, PassResult(<<>>, 0))

RECURSIVE AuthorTitleLoop(_, _, _, _)
AuthorTitleLoop(h, papers, i, acc) ==
    IF i > Len(papers) THEN acc
    ELSE AuthorTitleLoop(h, papers, i + 1,
                   Resolve(h, acc, papers[i], FirstAuthorTitleDuplicate(h, acc.unique, papers[i])))

\* _remove_author_title_duplicates
RemoveAuthorTitleDuplicates(h, papers) == AuthorTitleLoop(h, papers, 1, PassResult(<<>>, 0))

\* paper_groups[key]: the papers of one key, in input order
GroupOf(h, papers, key) ==
    LET HasKey(oid) == PaperKey(h[oid]) = key
    IN SelectSeq(papers, HasKey)

\* Faulty variant of GroupLoop: a record opens a new group unless the record
\* just before it has its key.
RECURSIVE GroupLoopAdjacent(_, _, _, _)
GroupLoopAdjacent(h, papers, i, acc) ==
    IF i > Len(papers) THEN acc
    ELSE IF i > 1 /\ PaperKey(h[papers[i - 1]]) = PaperKey(h[papers[i]])
         THEN GroupLoopAdjacent(h, papers, i + 1, acc)
    ELSE LET Collapsed(group) ==
                 IF Len(group) = 1 THEN Kept(acc, group[1])
                 ELSE PassResult(Append(acc.unique, ChooseBestVersion(h, group)),
                                 acc.found + Len(group) - 1)
         IN GroupLoopAdjacent(h, papers, i + 1, Collapsed(GroupOf(h, papers, PaperKey(h[papers[i]]))))

\* the loop over paper_groups.values(): a dict keeps its keys in the order of
\* their first insertion, so the groups come in the order of their first papers
RECURSIVE GroupLoop(_, _, _, _)
GroupLoop(h, papers, i, acc) ==
    IF i > Len(papers) THEN acc
    ELSE IF \E j \in 1..(i - 1) : PaperKey(h[papers[j]]) = PaperKey(h[papers[i]])
         THEN GroupLoop(h, papers, i + 1, acc)
    ELSE LET Collapsed(group) ==
                 IF Len(group) = 1 THEN Kept(acc, group[1])
                 ELSE PassResult(Append(acc.unique, ChooseBestVersion(h, group)),
                                 acc.found + Len(group) - 1)
         IN GroupLoop(h, papers, i + 1, Collapsed(GroupOf(h, papers, PaperKey(h[papers[i]]))))

\* _handle_preprint_duplicates
HandlePreprintDuplicates(h, papers) == GroupLoop(h, papers, 1, PassResult(<<>>, 0))

----------------------------------------------------------------------------
(* State *)

VARIABLES
    heap,                     \* the PaperMetadata objects: object id -> fields
    inp,                      \* the list passed to deduplicate_papers (object ids)
    papers,                   \* the local variable papers of deduplicate_papers
    pass_input,               \* the list the pass that ran last was given
    prev_out,                 \* the list the previous call returned (None: no call returned yet)
    pc,                       \* where the call of deduplicate_papers stands
    calls,                    \* calls of deduplicate_papers made on the engine
    total_papers_processed,   \* the statistics fields of the Deduplicator
    duplicates_found,
    doi_matches,
    title_matches,
    author_title_matches,
    rc_pc,                    \* where the call of _make_request_with_retry stands
    attempt_number,           \* the attempt the retry loop is at
    attempts,                 \* what request_func did at each attempt of the call
    result,                   \* what the call gave its caller: a value or an exception
    slept,                    \* seconds the call waited between its attempts
    request_calls,            \* calls of _make_request_with_retry made on the collector
    total_requests,           \* the statistics fields of the BaseCollector
    successful_requests,
    failed_requests,
    now,                      \* the clock time.time() reads, in ticks
    last_request_time,        \* BaseCollector.last_request_time, in ticks
    collector,                \* the collector: its source and its configuration
    args,                     \* the arguments of the call of search_papers
    s_pc,                     \* where the call of search_papers stands
    found,                    \* its local papers, and the list it returned
    pmids,                    \* the IdList of PubMedCollector.search_papers
    cursor,                   \* its cursor: start, offset, page or i
    req,                      \* the request it made last
    response,                 \* the response the collector received last
    searches,                 \* calls of search_papers made on the collector
    search_requests,          \* requests the call of search_papers has made
    domain,                   \* the argument of collect_papers_for_domain
    c_pc,                     \* where the call of collect_papers_for_domain stands
    query_index,              \* the query its loop is at
    source_index,             \* the collector it calls next for that query
    all_papers,               \* its local all_papers, and the list it returned
    invoked,                  \* the calls of search_papers it made and what they gave
    domains,                  \* the argument of run_collection_pipeline
    p_pc,                     \* where the call of run_collection_pipeline stands
    domain_index,             \* the domain its loop is at
    stage,                    \* the step of the domain it is at (1 to 7)
    attempted,                \* the domains whose try block was entered, in order
    failed,                   \* the domains whose try block was left by an Exception
    handed                    \* the list deduplicate_papers was given last

dedup_vars == <<heap, inp, papers, pass_input, prev_out, pc, calls, total_papers_processed,
                duplicates_found, doi_matches, title_matches, author_title_matches>>

request_vars == <<rc_pc, attempt_number, attempts, result, slept, request_calls, total_requests,
                  successful_requests, failed_requests, now, last_request_time>>

pipeline_vars == <<domains, p_pc, domain_index, stage, attempted, failed, handed>>

collect_vars == <<domain, c_pc, query_index, source_index, all_papers, invoked, pipeline_vars>>

search_vars == <<collector, args, s_pc, found, pmids, cursor, req, response, searches,
                 search_requests, collect_vars>>

retry_vars == <<request_vars, search_vars>>

vars == <<dedup_vars, retry_vars>>

\* the longest input list and the number of calls on one engine
MaxPapers == 3
MaxCalls == 2

LongTitleA == "zzzzzzzzzzzzzzzzzzzzzzzzzzzzzzzzzzzzzzzzzzzzzzzzzzaaaaaaaaaa"
LongTitleB == "zzzzzzzzzzzzzzzzzzzzzzzzzzzzzzzzzzzzzzzzzzzzzzzzzzbbbbbbbbbb"

\* The records the input lists are drawn from: titles that are equal after
\* normalisation, similar but not transitively so, similar at 0.69 and 0.70,
\* empty after normalisation, and equal in their first 50 characters only;
\* author lists of Jaccard similarity 1, 3/4 and 2/3; DOIs in several spellings,
\* shared by records of similar and of unrelated titles.
Universe == {
    Paper("run ab", NoAuthors, None, "pubmed", None, NoInt, NoInt, ""),
    Paper("Run: CD", NoAuthors, None, "pubmed", None, NoInt, NoInt, ""),
    Paper("The Run!", NoAuthors, None, "semantic_scholar", None, 5, NoInt, ""),
    Paper("The Run!", NoAuthors, None, "arxiv", None, NoInt, NoInt, ""),
    Paper("Run: CD", NoAuthors, "doi: 10.1/x", "semantic_scholar", None, NoInt, NoInt, ""),
    Paper("abcdefghijklm", Authors3, "10.1/x", "pubmed", "J Sports Sci", NoInt, 2020, "text"),
    Paper("abcdefg", Authors4, "DOI:10.1/X", "semantic_scholar", None, 5, 2021, "text"),
    Paper("abcdefg", Authors4, None, "pubmed", None, 5, 2021, "text"),
    Paper("abcdefghinopq", Authors4, None, "pubmed", None, NoInt, NoInt, ""),
    Paper("abcdefg", Authors2, None, "pubmed", "bioRxiv Preprints", NoInt, NoInt, ""),
    Paper("The", Authors3, None, "pubmed", None, NoInt, 2020, ""),
    Paper("Of an", Authors4, None, "arxiv", None, NoInt, 2021, "text"),
    Paper(LongTitleA, NoAuthors, None, "pubmed", None, NoInt, NoInt, ""),
    Paper(LongTitleB, NoAuthors, "http://dx.doi.org/10.2/Y", "pubmed", None, NoInt, NoInt, "") }

\* the state of a new Deduplicator (lines 20-24) that is about to be given batch
EngineInit(objects) ==
    /\ heap = objects
    /\ inp = [i \in 1..Len(objects) |-> i]
    /\ papers = <<>>
    /\ pass_input = <<>>
    /\ prev_out = None
    /\ pc = "idle"
    /\ calls = 0
    /\ total_papers_processed = 0
    /\ duplicates_found = 0
    /\ doi_matches = 0
    /\ title_matches = 0
    /\ author_title_matches = 0

\* Time is counted in ticks of a tenth of a second.  The clock stands at Epoch
\* when the collector is constructed: time.time() is seconds since 1970, far
\* more than one interval.
TicksPerSecond == 10
Epoch == 1000

\* rate_limit, in requests per second (the default of DOAJCollector)
RateLimit == 2

\* 1 / rate_limit, in ticks
MinInterval == TicksPerSecond \div RateLimit

\* the request search_papers made last and the response it received last, when
\* there is none
\* main.py 41-62
DOMAIN_QUERIES ==
    [load_progression |->
         << "progressive overload strength training",
            "training load progression resistance",
            "autoregulation training load RPE" >>,
     deload_timing |->
         << "deload fatigue monitoring training",
            "training reduction recovery protocols",
            "overreaching detection biomarkers" >>,
     exercise_selection |->
         << "exercise selection biomechanics muscle activation",
            "compound isolation exercise effectiveness",
            "movement pattern optimization training" >>,
     periodization |->
         << "periodization strength training athletes",
            "block periodization linear undulating",
            "competition preparation peaking strategies" >>]

NoRequest == [endpoint |-> "none", start |-> 0, size |-> 0]
NoResponse == [status |-> "none", parsable |-> FALSE, items |-> <<>>, total |-> 0]

\* the state of a new collector c (base_collector.py 31-34) on which no
\* request and no search has been made, in a builder that has collected
\* nothing
NewCollector(c) ==
    /\ domain = ""
    /\ c_pc = "idle"
    /\ query_index = 0
    /\ source_index = 0
    /\ all_papers = <<>>
    /\ invoked = <<>>
    /\ domains = <<>>
    /\ p_pc = "idle"
    /\ domain_index = 0
    /\ stage = 0
    /\ attempted = <<>>
    /\ failed = {}
    /\ handed = <<>>
    /\ collector = c
    /\ args = [max_results |-> 0, year_start |-> 0, year_end |-> 0]
    /\ s_pc = "idle"
    /\ found = <<>>
    /\ pmids = <<>>
    /\ cursor = 0
    /\ req = NoRequest
    /\ response = NoResponse
    /\ searches = 0
    /\ search_requests = 0
    /\ rc_pc = "idle"
    /\ attempt_number = 0
    /\ attempts = <<>>
    /\ result = None
    /\ slept = 0
    /\ request_calls = 0
    /\ total_requests = 0
    /\ successful_requests = 0
    /\ failed_requests = 0
    /\ now = Epoch
    /\ last_request_time = 0

\* a new DOAJCollector() (doaj_collector.py 18-25)
CollectorInit ==
    NewCollector([source |-> "doaj", use_serpapi |-> FALSE, serpapi_key |-> None])

Init ==
    /\ \E n \in 0..MaxPapers : \E objects \in [1..n -> Universe] : EngineInit(objects)
    /\ CollectorInit

\* Two records that the title pass (equal normalized titles, no authors) or
\* the author+title pass (title similarity 0.70, author similarity 3/4) judges
\* duplicates, with every combination of the fields the conflict resolution
\* reads: DOI present or not, published or preprint by source or by journal,
\* citation count absent, 0 or 5, year absent, 2020 or 2021, abstract or none.
PairTitles == { << <<"run ab", NoAuthors>>, <<"The Run!", NoAuthors>> >>,
                << <<"abcdefghijklm", Authors3>>, <<"abcdefg", Authors4>> >> }
PairVenues == { <<"pubmed", None>>, <<"arxiv", None>>, <<"pubmed", "bioRxiv Preprints">> }
PairCitations == {NoInt, 0, 5}
PairYears == {NoInt, 2020, 2021}
PairAbstracts == {"", "text"}

PairRecords(title, doi) ==
    { Paper(title[1], title[2], d, venue[1], venue[2], citation_count, year, abstract) :
        d \in {None, doi}, venue \in PairVenues, citation_count \in PairCitations,
        year \in PairYears, abstract \in PairAbstracts }

PairInit ==
    \E titles \in PairTitles :
        \E first \in PairRecords(titles[1], "10.1/x"), second \in PairRecords(titles[2], "10.2/y") :
            EngineInit(<<first, second>>) /\ CollectorInit

----------------------------------------------------------------------------
(* deduplicate_papers (deduplicator.py 26-46), one action per step *)

\* line 28: a call with the list batch
Enter(batch) ==
    /\ calls' = calls + 1
    /\ inp' = batch
    /\ papers' = batch
    /\ pass_input' = <<>>
    /\ total_papers_processed' = Len(batch)
    /\ pc' = "doi"
    /\ UNCHANGED <<heap, duplicates_found, doi_matches, title_matches, author_title_matches>>

\* the first call on the engine
Call ==
    /\ pc = "idle"
    /\ prev_out' = prev_out
    /\ Enter(inp)
    /\ UNCHANGED retry_vars

\* a later call on the same engine, given the list the last call returned
Resubmit ==
    /\ pc = "returned"
    /\ calls < MaxCalls
    /\ prev_out' = papers
    /\ Enter(papers)
    /\ UNCHANGED retry_vars

\* line 32
DoiPass ==
    /\ pc = "doi"
    /\ LET r == RemoveDoiDuplicates(heap, papers)
       IN /\ papers' = r.unique
          /\ duplicates_found' = duplicates_found + r.found
          /\ doi_matches' = doi_matches + r.found
    /\ pass_input' = papers
    /\ pc' = "title"
    /\ UNCHANGED <<heap, inp, prev_out, calls, total_papers_processed, title_matches,
                   author_title_matches>>
    /\ UNCHANGED retry_vars

\* line 35
TitlePass ==
    /\ pc = "title"
    /\ LET r == RemoveTitleDuplicates(heap, papers)
       IN /\ papers' = r.unique
          /\ duplicates_found' = duplicates_found + r.found
          /\ title_matches' = title_matches + r.found
    /\ pass_input' = papers
    /\ pc' = "author_title"
    /\ UNCHANGED <<heap, inp, prev_out, calls, total_papers_processed, doi_matches,
                   author_title_matches>>
    /\ UNCHANGED retry_vars

\* line 38
AuthorTitlePass ==
    /\ pc = "author_title"
    /\ LET r == RemoveAuthorTitleDuplicates(heap, papers)
       IN /\ papers' = r.unique
          /\ duplicates_found' = duplicates_found + r.found
          /\ author_title_matches' = author_title_matches + r.found
    /\ pass_input' = papers
    /\ pc' = "preprint"
    /\ UNCHANGED <<heap, inp, prev_out, calls, total_papers_processed, doi_matches,
                   title_matches>>
    /\ UNCHANGED retry_vars

\* line 41
PreprintPass ==
    /\ pc = "preprint"
    /\ LET r == HandlePreprintDuplicates(heap, papers)
       IN /\ papers' = r.unique
          /\ duplicates_found' = duplicates_found + r.found
    /\ pass_input' = papers
    /\ pc' = "log"
    /\ UNCHANGED <<heap, inp, prev_out, calls, total_papers_processed, doi_matches,
                   title_matches, author_title_matches>>
    /\ UNCHANGED retry_vars

\* lines 43-46: the second log line divides by total_papers_processed, so the
\* call raises ZeroDivisionError instead of returning when the input was empty
LogAndReturn ==
    /\ pc = "log"
    /\ pc' = IF total_papers_processed = 0 THEN "raised" ELSE "returned"
    /\ UNCHANGED <<heap, inp, papers, pass_input, prev_out, calls, total_papers_processed,
                   duplicates_found, doi_matches, title_matches, author_title_matches>>
    /\ UNCHANGED retry_vars

\* get_deduplication_stats; duplicate_rate as <<numerator, denominator>>
DeduplicationStats ==
    [total_papers_processed |-> total_papers_processed,
     duplicates_found |-> duplicates_found,
     duplicate_rate |-> IF total_papers_processed > 0
                        THEN <<duplicates_found, total_papers_processed>> ELSE <<0, 1>>,
     doi_matches |-> doi_matches,
     title_matches |-> title_matches,
     author_title_matches |-> author_title_matches,
     unique_papers_remaining |-> total_papers_processed - duplicates_found]

----------------------------------------------------------------------------
(* BaseCollector._make_request_with_retry (base_collector.py 46-62) *)

\* the arguments of the retry decorator
StopAfterAttempt == 3
WaitMultiplier == 1
WaitMin == 4
WaitMax == 10

\* calls made on one collector
MaxRequestCalls == 2

\* what request_func can do: return a value, raise an Exception, or raise a
\* BaseException that is no Exception
Values == {"page 1", "page 2"}
Exceptions == {"Timeout", "ConnectionError", "HTTPError"}
Interrupts == {"KeyboardInterrupt"}

RECURSIVE Pow2(_)
Pow2(n) == IF n = 0 THEN 1 ELSE 2 * Pow2(n - 1)

\* wait_exponential(multiplier=1, min=4, max=10), after the given attempt
WaitExponential(n) ==
    LET exp == WaitMultiplier * Pow2(n - 1)
    IN IF exp < WaitMin THEN WaitMin ELSE IF exp > WaitMax THEN WaitMax ELSE exp

\* Faulty variant of ShouldStop: one attempt more is allowed.
ShouldStopOneLate(n) == n > StopAfterAttempt

\* stop_after_attempt(3)
ShouldStop(n) == n >= StopAfterAttempt

\* the time request_func takes and the time sleep() sleeps too long, in ticks
Durations == {0, 7}
Lateness == {0, 1}

\* Faulty variant of WaitTime: half the interval is waited for.
WaitTimeHalved(current_time) ==
    (TicksPerSecond \div (2 * RateLimit)) - (current_time - last_request_time)

\* lines 38-39: wait_time, in ticks
WaitTime(current_time) ==
    (TicksPerSecond \div RateLimit) - (current_time - last_request_time)

\* _rate_limit_wait (lines 36-44), and the time request_func then runs for
RateLimitWait ==
    \E late \in Lateness, duration \in Durations :
        /\ last_request_time' =
               IF WaitTime(now) > 0 THEN now + WaitTime(now) + late ELSE now
        /\ now' = last_request_time' + duration

\* _make_request_with_retry is called: the retry loop starts its first attempt
BeginCall ==
    /\ rc_pc \in {"idle", "returned", "raised"}
    /\ request_calls' = request_calls + 1
    /\ rc_pc' = "attempt"
    /\ attempt_number' = 1
    /\ attempts' = <<>>
    /\ result' = None
    /\ slept' = 0
    /\ UNCHANGED <<total_requests, successful_requests, failed_requests, now,
                   last_request_time>>
    /\ UNCHANGED dedup_vars

\* a caller calls _make_request_with_retry
RequestCall ==
    /\ request_calls < MaxRequestCalls
    /\ BeginCall
    /\ UNCHANGED search_vars

\* lines 52-58: request_func returns, and so does the call
AttemptReturns ==
    /\ rc_pc = "attempt"
    /\ RateLimitWait
    /\ \E value \in Values :
           /\ attempts' = Append(attempts, value)
           /\ result' = value
    /\ total_requests' = total_requests + 1
    /\ successful_requests' = successful_requests + 1
    /\ rc_pc' = "returned"
    /\ UNCHANGED <<attempt_number, slept, request_calls, failed_requests>>
    /\ UNCHANGED <<dedup_vars, search_vars>>

\* lines 52-56 and 59-62: request_func raises an Exception, which the body
\* counts and raises again; the retry loop stops and raises it to the caller
\* (reraise=True) at the last attempt, and goes to wait before that
AttemptRaises ==
    /\ rc_pc = "attempt"
    /\ RateLimitWait
    /\ \E exception \in Exceptions :
           /\ attempts' = Append(attempts, exception)
           /\ result' = IF ShouldStop(attempt_number) THEN exception ELSE None
    /\ total_requests' = total_requests + 1
    /\ failed_requests' = failed_requests + 1
    /\ rc_pc' = IF ShouldStop(attempt_number) THEN "raised" ELSE "backoff"
    /\ UNCHANGED <<attempt_number, slept, request_calls, successful_requests>>
    /\ UNCHANGED <<dedup_vars, search_vars>>

\* lines 52-56: request_func raises a BaseException that `except Exception`
\* does not catch and the retry loop does not retry
AttemptInterrupted ==
    /\ rc_pc = "attempt"
    /\ RateLimitWait
    /\ \E interrupt \in Interrupts :
           /\ attempts' = Append(attempts, interrupt)
           /\ result' = interrupt
    /\ total_requests' = total_requests + 1
    /\ rc_pc' = "raised"
    /\ UNCHANGED <<attempt_number, slept, request_calls, successful_requests, failed_requests>>
    /\ UNCHANGED <<dedup_vars, search_vars>>

\* line 48: the retry loop sleeps and starts the next attempt
Backoff ==
    /\ rc_pc = "backoff"
    /\ slept' = slept + WaitExponential(attempt_number)
    /\ now' = now + WaitExponential(attempt_number) * TicksPerSecond
    /\ attempt_number' = attempt_number + 1
    /\ rc_pc' = "attempt"
    /\ UNCHANGED <<attempts, result, request_calls, total_requests, successful_requests,
                   failed_requests, last_request_time>>
    /\ UNCHANGED <<dedup_vars, search_vars>>

Next ==
    \/ Call
    \/ Resubmit
    \/ DoiPass
    \/ TitlePass
    \/ AuthorTitlePass
    \/ PreprintPass
    \/ LogAndReturn

Spec == Init /\ [][Next]_vars

\* deduplicate_papers on a pair of duplicates
SpecPair == PairInit /\ [][Next]_vars

\* Three records of equal normalized titles and no authors, which the title
\* pass judges duplicates of each other, without DOI and published, with the
\* citation count absent or 5, the year absent, 2020 or 2021, an abstract or
\* none.
TripleRecords(title) ==
    { Paper(title, NoAuthors, None, "pubmed", None, citation_count, year, abstract) :
        citation_count \in {NoInt, 5}, year \in PairYears, abstract \in PairAbstracts }

TripleInit ==
    \E first \in TripleRecords("run ab"), second \in TripleRecords("The Run!"),
       third \in TripleRecords("run ab") :
        EngineInit(<<first, second, third>>) /\ CollectorInit

\* deduplicate_papers on three duplicates of each other
SpecTriple == TripleInit /\ [][Next]_vars

\* Two records of different titles that agree on their first 50 normalized
\* characters, without authors: no earlier pass judges them duplicates and
\* the version-collapse pass puts them in one group. Every combination of the
\* fields the two resolutions read.
VersionInit ==
    \E first \in PairRecords(<<LongTitleA, NoAuthors>>, "10.1/x"),
       second \in PairRecords(<<LongTitleB, NoAuthors>>, "10.2/y") :
        EngineInit(<<first, second>>) /\ CollectorInit

\* deduplicate_papers on two versions of one paper
SpecVersion == VersionInit /\ [][Next]_vars

\* calls of _make_request_with_retry on one collector
RetryInit == EngineInit(<<>>) /\ CollectorInit

NextRetry ==
    \/ RequestCall
    \/ AttemptReturns
    \/ AttemptRaises
    \/ AttemptInterrupted
    \/ Backoff

SpecRetry == RetryInit /\ [][NextRetry]_vars

\* ten consecutive calls of _make_request_with_retry on one collector
ConsecutiveCalls == 10

ConsecutiveCall ==
    /\ request_calls < ConsecutiveCalls
    /\ BeginCall
    /\ UNCHANGED search_vars

\* the requests time out or succeed
NextRate ==
    \/ ConsecutiveCall
    \/ AttemptReturns /\ result' = "page 1"
    \/ AttemptRaises /\ attempts'[Len(attempts')] = "Timeout"
    \/ Backoff

SpecRate == RetryInit /\ [][NextRate]_vars

----------------------------------------------------------------------------
(* search_papers of the collectors *)

\* the default year range of search_papers (base_collector.py 69-70)
YearStart == 2010
YearEnd == 2024

\* the largest max_results, the longest page a source answers with, the
\* searches made on one collector, the requests made by one search and the
\* requests that time out
MaxResults == 2
MaxPageItems == 2
MaxSearches == 2
MaxSearchRequests == 11
MaxTimeouts == 3

Min(a, b) == IF a <= b THEN a ELSE b

\* An entry of a response page: its title as the source spells it, its year,
\* and whether reading its fields raises.  The entries of the model: years in
\* the range, one below, one above and absent; a blank title; a malformed entry.
Entry(title, year, malformed) == [title |-> title, year |-> year, malformed |-> malformed]

Entries == {
    Entry(<<"a">>, 2015, FALSE),
    Entry(<<"b">>, YearStart - 1, FALSE),
    Entry(<<"c">>, YearEnd + 1, FALSE),
    Entry(<<"d">>, NoInt, FALSE),
    Entry(<<" ">>, 2015, FALSE),
    Entry(<<"e">>, 2015, TRUE) }

\* what a request gave: no response when _make_request_with_retry raised, and
\* else a response with a status, a body that parses or not, and the entries
\* (and for DOAJ the total) the body holds
Raised == [status |-> "raised", parsable |-> FALSE, items |-> <<>>, total |-> 0]

\* the full pages a source answers a request of more than MaxPageItems entries
\* with: entries of a year in the range, but for the first one, which may be
\* of an earlier year
FullPages(size) ==
    IF size <= MaxPageItems THEN {}
    ELSE { [i \in 1..size |-> IF i = 1 THEN first ELSE Entry(<<"a">>, 2015, FALSE)] :
             first \in {Entry(<<"a">>, 2015, FALSE), Entry(<<"b">>, YearStart - 1, FALSE)} }

Responses(source, size) ==
    { [status |-> "200", parsable |-> TRUE, items |-> items, total |-> total] :
        items \in UNION { [1..n -> Entries] : n \in 0..Min(size, MaxPageItems) }
                      \cup FullPages(size),
        total \in IF source = "doaj" THEN {1, 60} ELSE {0} }
    \cup { [status |-> "200", parsable |-> FALSE, items |-> <<>>, total |-> 0] }
    \cup IF source = "pubmed" THEN {}
         ELSE { [status |-> status, parsable |-> FALSE, items |-> <<>>, total |-> 0] :
                  status \in {"429", "503"} }

\* _parse_arxiv_entry, _parse_semantic_scholar_paper, _parse_doaj_result,
\* _parse_pubmed_record and _parse_serpapi_result: no record (the empty list
\* here for Python's None) when the title is empty after strip() or when
\* reading the entry raises, which is caught
ParseEntry(entry, source) ==
    IF entry.malformed \/ Strip(entry.title) = <<>> THEN <<>>
    ELSE << Paper(Strip(entry.title), NoAuthors, None, source, None, NoInt, entry.year, "") >>

\* _parse_scholar_result: no record when the title element is missing or
\* when reading the entry raises
ParseScholarResult(entry) ==
    IF entry.malformed \/ entry.title = <<>> THEN <<>>
    ELSE << Paper(Strip(entry.title), NoAuthors, None, "google_scholar", None, NoInt,
                  entry.year, "") >>

\* the loop over the entries of a page, left at the first entry whose parsing
\* raises
ParseEntriesUnguarded(entries, backend) ==
    LET Malformed(i) == entries[i].malformed
        last == IF \E i \in 1..Len(entries) : Malformed(i)
                THEN (CHOOSE i \in 1..Len(entries) :
                          Malformed(i) /\ \A j \in 1..(i - 1) : ~Malformed(j)) - 1
                ELSE Len(entries)
        One(entry) ==
            IF backend = "scraping" THEN ParseScholarResult(entry)
            ELSE IF backend = "serpapi" THEN ParseEntry(entry, "google_scholar")
            ELSE ParseEntry(entry, backend)
        IsRecord(parsed) == parsed # <<>>
        records == SelectSeq([i \in 1..last |-> One(entries[i])], IsRecord)
    IN [i \in 1..Len(records) |-> records[i][1]]

\* the loop over the entries of a page of the given backend: the records
\* parsed, in order
ParseEntries(entries, backend) ==
    LET One(entry) ==
            IF backend = "scraping" THEN ParseScholarResult(entry)
            ELSE IF backend = "serpapi" THEN ParseEntry(entry, "google_scholar")
            ELSE ParseEntry(entry, backend)
        IsRecord(parsed) == parsed # <<>>
        records == SelectSeq([i \in 1..Len(entries) |-> One(entries[i])], IsRecord)
    IN [i \in 1..Len(records) |-> records[i][1]]

\* _filter_by_year
FilterByYear(paper, year_start, year_end) ==
    IF ~TruthyInt(paper.year) THEN TRUE
    ELSE year_start <= paper.year /\ paper.year <= year_end

\* One iteration of the loop of a search_papers, from the request it makes to
\* what the response (or the exception of the request) leads to: the request,
\* the local papers (the list returned, when the search is done), the IdList,
\* the cursor of the next iteration and the seconds slept.
Iteration(request, collected, ids, next, done, sleep) ==
    [req |-> request, papers |-> collected, pmids |-> ids, start |-> next, done |-> done,
     sleep |-> sleep]

\* ArxivCollector.search_papers, lines 26-73
ArxivIteration(a, collected, from, reply) ==
    LET batch_size == Min(50, a.max_results)
        current_batch_size == Min(batch_size, a.max_results - Len(collected))
        Request == [endpoint |-> "arxiv", start |-> from, size |-> current_batch_size]
        Return(list) == Iteration(Request, Take(list, a.max_results), <<>>, from, TRUE, 0)
        Accepted(paper) == FilterByYear(paper, a.year_start, a.year_end)
        Extend(batch_papers, grown) ==
            IF Len(batch_papers) < current_batch_size \/ Len(grown) >= a.max_results
            THEN Return(grown)
            ELSE Iteration(Request, grown, <<>>, from + current_batch_size, FALSE, 0)
        Page(batch_papers) ==
            IF batch_papers = <<>> THEN Return(collected)
            ELSE Extend(batch_papers, collected \o SelectSeq(batch_papers, Accepted))
    IN IF reply.status = "raised" THEN Return(<<>>)
       ELSE IF reply.status # "200" THEN Return(collected)
       ELSE Page(IF reply.parsable THEN ParseEntries(reply.items, "arxiv") ELSE <<>>)

\* SemanticScholarCollector.search_papers, lines 35-82
SemanticScholarIteration(a, collected, offset, reply) ==
    LET limit == Min(100, a.max_results)
        batch_size == Min(limit, a.max_results - Len(collected))
        Request == [endpoint |-> "semantic_scholar", start |-> offset, size |-> batch_size]
        Return(list) == Iteration(Request, Take(list, a.max_results), <<>>, offset, TRUE, 0)
        Accepted(paper) == FilterByYear(paper, a.year_start, a.year_end)
        Extend(batch_papers, grown) ==
            IF Len(batch_papers) < batch_size \/ Len(grown) >= a.max_results
            THEN Return(grown)
            ELSE Iteration(Request, grown, <<>>, offset + batch_size, FALSE, 0)
        Page(batch_papers) ==
            IF batch_papers = <<>> THEN Return(collected)
            ELSE Extend(batch_papers,
                        collected \o SelectSeq(ParseEntries(batch_papers, "semantic_scholar"),
                                            Accepted))
    IN IF reply.status = "raised" THEN Return(<<>>)
       ELSE IF reply.status # "200" THEN Return(collected)
       ELSE IF ~reply.parsable THEN Return(<<>>)
       ELSE Page(reply.items)

\* DOAJCollector.search_papers, lines 40-82
DoajIteration(a, collected, page, reply) ==
    LET page_size == 50
        Request == [endpoint |-> "doaj", start |-> page,
                    size |-> Min(page_size, a.max_results - Len(collected))]
        Return(list) == Iteration(Request, Take(list, a.max_results), <<>>, page, TRUE, 0)
        Extend(results, grown) ==
            IF Len(grown) >= reply.total \/ Len(results) < page_size
               \/ Len(grown) >= a.max_results
            THEN Return(grown)
            ELSE Iteration(Request, grown, <<>>, page + 1, FALSE, 0)
        Page(results) ==
            IF results = <<>> THEN Return(collected)
            ELSE Extend(results, collected \o ParseEntries(results, "doaj"))
    IN IF reply.status = "raised" THEN Return(<<>>)
       ELSE IF reply.status # "200" THEN Return(collected)
       ELSE IF ~reply.parsable THEN Return(<<>>)
       ELSE Page(reply.items)

\* PubMedCollector.search_papers and _fetch_paper_details: the esearch request
\* while i is not bound (lines 20-42), then an efetch request for each batch
\* (lines 57-87, 47-51)
PubmedIteration(a, collected, ids, i, reply) ==
    LET batch_size == 20
        batch_pmids == SubSeq(ids, i + 1, Min(i + batch_size, Len(ids)))
        Search == [endpoint |-> "esearch", start |-> 0, size |-> a.max_results]
        Fetch == [endpoint |-> "efetch", start |-> i, size |-> Len(batch_pmids)]
        Batch(grown) ==
            IF i + batch_size < Len(ids)
            THEN Iteration(Fetch, grown, ids, i + batch_size, FALSE, 0)
            ELSE Iteration(Fetch, grown, ids, i, TRUE, 0)
    IN IF i = NoInt
       THEN IF reply.status = "raised" \/ ~reply.parsable \/ reply.items = <<>>
            THEN Iteration(Search, <<>>, <<>>, i, TRUE, 0)
            ELSE Iteration(Search, <<>>, reply.items, 0, FALSE, 0)
       ELSE IF reply.status = "raised" \/ ~reply.parsable
            THEN Iteration(Fetch, collected, ids, i, TRUE, 0)
            ELSE Batch(collected \o ParseEntries(reply.items, "pubmed"))

\* GoogleScholarCollector._search_with_serpapi
SerpapiIteration(a, collected, from, reply) ==
    LET Request == [endpoint |-> "serpapi", start |-> 0, size |-> Min(a.max_results, 20)]
    IN IF reply.status = "raised" \/ ~reply.parsable
       THEN Iteration(Request, <<>>, <<>>, from, TRUE, 0)
       ELSE Iteration(Request, Take(ParseEntries(reply.items, "serpapi"), a.max_results),
                      <<>>, from, TRUE, 0)

\* GoogleScholarCollector._search_with_scraping, lines 127-168
ScrapingIteration(a, collected, from, reply) ==
    LET results_per_page == 10
        Request == [endpoint |-> "scraping", start |-> from, size |-> results_per_page]
        Extend(grown) ==
            IF Len(grown) < a.max_results /\ from + results_per_page < 100
            THEN Iteration(Request, grown, <<>>, from + results_per_page, FALSE, 10)
            ELSE Iteration(Request, grown, <<>>, from + results_per_page, TRUE, 10)
        Page(results) ==
            IF results = <<>> THEN Iteration(Request, collected, <<>>, from, TRUE, 0)
            ELSE Extend(Take(collected \o ParseEntries(results, "scraping"), a.max_results))
    IN IF reply.status = "raised" \/ reply.status = "429"
       THEN Iteration(Request, collected, <<>>, from, TRUE, 0)
       ELSE Page(IF reply.parsable THEN reply.items ELSE <<>>)

\* the licensed backend whenever it is enabled, with or without a key
SearchBackendFlagOnly(c) ==
    IF c.source # "google_scholar" THEN c.source
    ELSE IF c.use_serpapi THEN "serpapi"
    ELSE "scraping"

\* GoogleScholarCollector.search_papers, lines 62-65
SearchBackend(c) ==
    IF c.source # "google_scholar" THEN c.source
    ELSE IF c.use_serpapi /\ Truthy(c.serpapi_key) THEN "serpapi"
    ELSE "scraping"

\* the collectors searches are made on: one of each class, and the
\* configurations of GoogleScholarCollector
Collectors ==
    { [source |-> source, use_serpapi |-> FALSE, serpapi_key |-> None] :
        source \in {"pubmed", "semantic_scholar", "arxiv", "doaj"} }
    \cup { [source |-> "google_scholar", use_serpapi |-> use_serpapi, serpapi_key |-> key] :
             use_serpapi \in BOOLEAN, key \in {None, "", "key"} }

\* search_papers is called: its locals before the loop
SearchCalled(max_results) ==
    /\ s_pc \in {"idle", "returned"}
    /\ searches < MaxSearches
    /\ searches' = searches + 1
    /\ args' = [max_results |-> max_results, year_start |-> YearStart,
                year_end |-> YearEnd]
    /\ found' = <<>>
    /\ pmids' = <<>>
    /\ cursor' = IF collector.source = "doaj" THEN 1
                ELSE IF collector.source = "pubmed" THEN NoInt
                ELSE 0
    /\ search_requests' = 0
    /\ s_pc' = "loop"
    /\ UNCHANGED <<collector, req, response>>
    /\ UNCHANGED <<dedup_vars, request_vars, collect_vars>>

\* a search of MaxResults records at most
StartSearch == \E max_results \in 1..MaxResults : SearchCalled(max_results)

\* max_results of a search of more records than a page of the source holds
LongResults == {60, 110}

\* the loop calls _make_request_with_retry
IssueRequest ==
    /\ s_pc = "loop"
    /\ search_requests < MaxSearchRequests
    /\ BeginCall
    /\ search_requests' = search_requests + 1
    /\ s_pc' = "await"
    /\ UNCHANGED <<collector, args, found, pmids, cursor, req, response, searches>>
    /\ UNCHANGED collect_vars

\* Faulty variant of HandleResponse: an exception of the request is not caught
\* and leaves search_papers.
HandleResponseUncaught ==
    LET Step(reply) ==
            CASE SearchBackend(collector) = "arxiv" -> ArxivIteration(args, found, cursor, reply)
              [] SearchBackend(collector) = "semantic_scholar" ->
                     SemanticScholarIteration(args, found, cursor, reply)
              [] SearchBackend(collector) = "doaj" -> DoajIteration(args, found, cursor, reply)
              [] SearchBackend(collector) = "pubmed" ->
                     PubmedIteration(args, found, pmids, cursor, reply)
              [] SearchBackend(collector) = "serpapi" ->
                     SerpapiIteration(args, found, cursor, reply)
              [] SearchBackend(collector) = "scraping" ->
                     ScrapingIteration(args, found, cursor, reply)
        Advance(reply, iteration) ==
            /\ response' = reply
            /\ req' = iteration.req
            /\ found' = iteration.papers
            /\ pmids' = iteration.pmids
            /\ cursor' = iteration.start
            /\ s_pc' = IF reply = Raised THEN "raised"
                       ELSE IF iteration.done THEN "returned" ELSE "loop"
            /\ now' = now + iteration.sleep * TicksPerSecond
        Requested(request) ==
            IF rc_pc = "raised" THEN {Raised} ELSE Responses(collector.source, request.size)
    IN /\ s_pc = "await"
       /\ rc_pc \in {"returned", "raised"}
       /\ \E reply \in Requested(Step(Raised).req) : Advance(reply, Step(reply))
       /\ UNCHANGED <<collector, args, searches, search_requests, collect_vars>>
       /\ UNCHANGED <<rc_pc, attempt_number, attempts, result, slept, request_calls,
                      total_requests, successful_requests, failed_requests,
                      last_request_time>>
       /\ UNCHANGED dedup_vars

\* _make_request_with_retry has returned a response or raised: the rest of the
\* iteration, up to the next request or to the return of search_papers
HandleResponse ==
    LET Step(reply) ==
            CASE SearchBackend(collector) = "arxiv" -> ArxivIteration(args, found, cursor, reply)
              [] SearchBackend(collector) = "semantic_scholar" ->
                     SemanticScholarIteration(args, found, cursor, reply)
              [] SearchBackend(collector) = "doaj" -> DoajIteration(args, found, cursor, reply)
              [] SearchBackend(collector) = "pubmed" ->
                     PubmedIteration(args, found, pmids, cursor, reply)
              [] SearchBackend(collector) = "serpapi" ->
                     SerpapiIteration(args, found, cursor, reply)
              [] SearchBackend(collector) = "scraping" ->
                     ScrapingIteration(args, found, cursor, reply)
        Advance(reply, iteration) ==
            /\ response' = reply
            /\ req' = iteration.req
            /\ found' = iteration.papers
            /\ pmids' = iteration.pmids
            /\ cursor' = iteration.start
            /\ s_pc' = IF iteration.done THEN "returned" ELSE "loop"
            /\ now' = now + iteration.sleep * TicksPerSecond
        Requested(request) ==
            IF rc_pc = "raised" THEN {Raised} ELSE Responses(collector.source, request.size)
    IN /\ s_pc = "await"
       /\ rc_pc \in {"returned", "raised"}
       /\ \E reply \in Requested(Step(Raised).req) : Advance(reply, Step(reply))
       /\ UNCHANGED <<collector, args, searches, search_requests, collect_vars>>
       /\ UNCHANGED <<rc_pc, attempt_number, attempts, result, slept, request_calls,
                      total_requests, successful_requests, failed_requests,
                      last_request_time>>
       /\ UNCHANGED dedup_vars

\* the requests time out or succeed and take no time, the sleeps end on time,
\* and the source times out MaxTimeouts times at most
Punctual ==
    /\ now' = last_request_time'
    /\ last_request_time' = IF WaitTime(now) > 0 THEN now + WaitTime(now) ELSE now
    /\ failed_requests' <= MaxTimeouts

SearchInit ==
    \E c \in Collectors : EngineInit(<<>>) /\ NewCollector(c)

NextSearch ==
    \/ StartSearch /\ searches' = 1
    \/ IssueRequest
    \/ AttemptReturns /\ result' = "page 1" /\ Punctual
    \/ AttemptRaises /\ attempts'[Len(attempts')] = "Timeout" /\ Punctual
    \/ Backoff
    \/ HandleResponse

SpecSearch == SearchInit /\ [][NextSearch]_vars

\* the source answers every request at once with a full page or an empty one,
\* the entries of which parse
FullPage ==
    /\ response'.status = "200"
    /\ response'.parsable
    /\ response'.total # 1
    /\ response'.items = <<>> \/ response'.items \in FullPages(req'.size)

\* One search of each collector for more records than a page holds
NextPaging ==
    \/ (\E max_results \in LongResults : SearchCalled(max_results)) /\ searches' = 1
    \/ IssueRequest
    \/ AttemptReturns /\ result' = "page 1" /\ Punctual
    \/ HandleResponse /\ FullPage

SpecPaging == SearchInit /\ [][NextPaging]_vars

\* A run of searches on one GoogleScholarCollector, as the searches of the
\* queries of a domain are: no request times out, and the pages of the source
\* hold one well-formed entry at most
RunInit ==
    \E c \in Collectors :
        c.source = "google_scholar" /\ EngineInit(<<>>) /\ NewCollector(c)

ShortPage ==
    /\ Len(response'.items) <= 1
    /\ \A i \in DOMAIN response'.items : response'.items[i] = Entry(<<"a">>, 2015, FALSE)

NextRun ==
    \/ StartSearch
    \/ IssueRequest
    \/ AttemptReturns /\ result' = "page 1" /\ Punctual
    \/ HandleResponse /\ ShortPage

SpecRun == RunInit /\ [][NextRun]_vars

----------------------------------------------------------------------------
(* collect_papers_for_domain of the builder *)

\* main.py 88: TARGET_PAPERS_PER_DOMAIN
TargetPapersPerDomain == 50

\* the longest list a call of search_papers returns
MaxFound == 1

\* the collectors in the order the loop body calls them (main.py 196-233),
\* each with the divisor of its max_results
BuilderCollectors ==
    << [source |-> "pubmed", share |-> 1],
       [source |-> "semantic_scholar", share |-> 1],
       [source |-> "arxiv", share |-> 2] >>

\* the max_results the builder passes to the collector at position j
MaxResultsFor(queries, j) ==
    (TargetPapersPerDomain \div Len(queries)) \div BuilderCollectors[j].share

\* the records a search of the source for the query may return: n records of
\* the source, told apart by their position, with the default domain
Found(query, source, n) ==
    [i \in 1..n |-> [title |-> <<query, i>>, source |-> source, domain |-> ""]]

\* paper.domain = domain, on the records of a list
StampUnchanged(list, d) == list

Stamp(list, d) == [i \in DOMAIN list |-> [list[i] EXCEPT !.domain = d]]

\* collect_papers_for_domain(d) is called (main.py 188-191)
BeginCollect(d) ==
    /\ domain' = d
    /\ all_papers' = <<>>
    /\ invoked' = <<>>
    /\ query_index' = 1
    /\ source_index' = 1
    /\ c_pc' = "search"

\* a call of collect_papers_for_domain on its own
StartCollect ==
    /\ c_pc = "idle"
    /\ \E d \in DOMAIN DOMAIN_QUERIES : BeginCollect(d)
    /\ UNCHANGED <<dedup_vars, request_vars, pipeline_vars>>
    /\ UNCHANGED <<collector, args, s_pc, found, pmids, cursor, req, response, searches,
                   search_requests>>

\* the loops go to the next collector, then to the next query, and the
\* function returns all_papers after the last
Continue ==
    /\ source_index' = IF source_index < Len(BuilderCollectors) THEN source_index + 1 ELSE 1
    /\ query_index' = IF source_index < Len(BuilderCollectors) THEN query_index
                      ELSE query_index + 1
    /\ c_pc' = IF source_index = Len(BuilderCollectors)
                  /\ query_index = Len(DOMAIN_QUERIES[domain])
               THEN "returned" ELSE "search"

\* the call made next: its query, its collector and its max_results
Invocation(raised, list) ==
    [query |-> DOMAIN_QUERIES[domain][query_index],
     source |-> BuilderCollectors[source_index].source,
     max_results |-> MaxResultsFor(DOMAIN_QUERIES[domain], source_index),
     raised |-> raised,
     papers |-> list]

\* a try block whose search_papers returns a list (197-205, 210-218, 223-231)
SearchReturns ==
    /\ c_pc = "search"
    /\ \E n \in 0..Min(MaxFound, MaxResultsFor(DOMAIN_QUERIES[domain], source_index)) :
           LET list == Found(DOMAIN_QUERIES[domain][query_index],
                             BuilderCollectors[source_index].source, n)
           IN /\ invoked' = Append(invoked, Invocation(FALSE, list))
              /\ all_papers' = all_papers \o Stamp(list, domain)
    /\ Continue
    /\ UNCHANGED domain
    /\ UNCHANGED <<dedup_vars, request_vars, pipeline_vars>>
    /\ UNCHANGED <<collector, args, s_pc, found, pmids, cursor, req, response, searches,
                   search_requests>>

\* a search_papers that raises an Exception outside of a try block: the
\* exception leaves collect_papers_for_domain, which returns nothing
SearchRaisesUncaught ==
    /\ c_pc = "search"
    /\ invoked' = Append(invoked, Invocation(TRUE, <<>>))
    /\ c_pc' = "raised"
    /\ all_papers' = <<>>
    /\ UNCHANGED <<domain, query_index, source_index>>
    /\ UNCHANGED <<dedup_vars, request_vars, pipeline_vars>>
    /\ UNCHANGED <<collector, args, s_pc, found, pmids, cursor, req, response, searches,
                   search_requests>>

\* a try block whose search_papers raises an Exception, which is caught and
\* logged (206-207, 219-220, 232-233)
SearchRaises ==
    /\ c_pc = "search"
    /\ invoked' = Append(invoked, Invocation(TRUE, <<>>))
    /\ Continue
    /\ UNCHANGED <<domain, all_papers>>
    /\ UNCHANGED <<dedup_vars, request_vars, pipeline_vars>>
    /\ UNCHANGED <<collector, args, s_pc, found, pmids, cursor, req, response, searches,
                   search_requests>>

NextCollect ==
    \/ StartCollect
    \/ SearchReturns
    \/ SearchRaises

CollectInit == EngineInit(<<>>) /\ CollectorInit

SpecCollect == CollectInit /\ [][NextCollect]_vars

----------------------------------------------------------------------------
(* run_collection_pipeline of the builder *)

\* the steps of a domain (main.py 141-175)
Stages == << "collect", "deduplicate", "filter", "pdf", "embed", "store", "stats" >>

\* the lists of domains a run is started with: the default, which is
\* list(DOMAIN_QUERIES.keys()), and one given by a caller, with a domain that
\* has no queries
DomainLists ==
    { << "load_progression", "deload_timing", "exercise_selection", "periodization" >>,
      << "periodization", "nutrition", "deload_timing" >> }

\* the variables of the collectors and of the deduplicator, which the run is
\* not followed into
Components ==
    <<dedup_vars, request_vars, collector, args, s_pc, found, pmids, cursor, req, response,
      searches, search_requests>>

\* run_collection_pipeline(domains) is called (main.py 121-136)
RunPipeline ==
    /\ p_pc = "idle"
    /\ \E list \in DomainLists : domains' = list
    /\ domain_index' = 1
    /\ p_pc' = "domain"
    /\ UNCHANGED <<stage, attempted, failed, handed>>
    /\ UNCHANGED <<domain, c_pc, query_index, source_index, all_papers, invoked>>
    /\ UNCHANGED Components

\* the step went through: the next step of the domain, and the next domain
\* after step 7 (177-183)
StepDone ==
    IF stage < Len(Stages)
    THEN stage' = stage + 1 /\ p_pc' = "step" /\ UNCHANGED <<domain_index, failed>>
    ELSE stage' = 0 /\ p_pc' = "domain" /\ domain_index' = domain_index + 1
         /\ UNCHANGED failed

\* an Exception left the step without being caught: it leaves the run
StepFailedUncaught ==
    /\ stage' = 0
    /\ p_pc' = "failed"
    /\ failed' = failed \cup {domains[domain_index]}
    /\ UNCHANGED domain_index

\* the step raised an Exception: it is caught and logged, and the loop goes to
\* the next domain (179-183)
StepFailed ==
    /\ stage' = 0
    /\ p_pc' = "domain"
    /\ domain_index' = domain_index + 1
    /\ failed' = failed \cup {domains[domain_index]}

\* the loop over the domains: the try block of the next domain is entered and
\* step 1 calls collect_papers_for_domain (138-144), which raises KeyError
\* when the domain has no queries (191); after the last domain the final
\* report is generated (185-186)
StartDomain ==
    /\ p_pc = "domain"
    /\ IF domain_index > Len(domains)
       THEN /\ p_pc' = "report"
            /\ UNCHANGED <<stage, attempted, domain_index, failed>>
            /\ UNCHANGED <<domain, c_pc, query_index, source_index, all_papers, invoked>>
       ELSE /\ attempted' = Append(attempted, domains[domain_index])
            /\ IF domains[domain_index] \in DOMAIN DOMAIN_QUERIES
               THEN /\ stage' = 1
                    /\ p_pc' = "collect"
                    /\ BeginCollect(domains[domain_index])
                    /\ UNCHANGED <<domain_index, failed>>
               ELSE /\ StepFailed
                    /\ UNCHANGED <<domain, c_pc, query_index, source_index, all_papers,
                                   invoked>>
    /\ UNCHANGED <<domains, handed>>
    /\ UNCHANGED Components

\* collect_papers_for_domain has returned and step 2 gives its list to
\* deduplicate_papers (144-149), which raises ZeroDivisionError when the list
\* is empty (deduplicator.py 44) and otherwise returns or raises
DeduplicateStep ==
    /\ p_pc = "collect"
    /\ c_pc = "returned"
    /\ handed' = all_papers
    /\ \/ all_papers # <<>> /\ stage' = 3 /\ p_pc' = "step"
          /\ UNCHANGED <<domain_index, failed>>
       \/ StepFailed
    /\ UNCHANGED <<domains, attempted>>
    /\ UNCHANGED <<domain, c_pc, query_index, source_index, all_papers, invoked>>
    /\ UNCHANGED Components

\* one of the steps 3 to 7 returns (151-175)
StepReturns ==
    /\ p_pc = "step"
    /\ StepDone
    /\ UNCHANGED <<domains, attempted, handed>>
    /\ UNCHANGED <<domain, c_pc, query_index, source_index, all_papers, invoked>>
    /\ UNCHANGED Components

\* one of the steps 3 to 7 raises an Exception
StepRaises ==
    /\ p_pc = "step"
    /\ StepFailed
    /\ UNCHANGED <<domains, attempted, handed>>
    /\ UNCHANGED <<domain, c_pc, query_index, source_index, all_papers, invoked>>
    /\ UNCHANGED Components

\* KeyboardInterrupt while collect_papers_for_domain runs: no except Exception
\* catches it (206, 219, 232, 179), the calls are left, and main exits
\* (494-496)
Interrupt ==
    /\ p_pc = "collect"
    /\ c_pc = "search"
    /\ c_pc' = "interrupted"
    /\ p_pc' = "aborted"
    /\ UNCHANGED <<domains, domain_index, stage, attempted, failed, handed>>
    /\ UNCHANGED <<domain, query_index, source_index, all_papers, invoked>>
    /\ UNCHANGED Components

\* the searches of the first query of a domain find records or none, and
\* those of its later queries find none
FirstQueryFinds == query_index > 1 => all_papers' = all_papers

NextPipeline ==
    \/ RunPipeline
    \/ StartDomain
    \/ SearchReturns /\ FirstQueryFinds
    \/ DeduplicateStep
    \/ StepReturns
    \/ StepRaises

\* every call returns or raises
SpecPipeline == CollectInit /\ [][NextPipeline]_vars /\ WF_vars(NextPipeline)

NextAbort ==
    \/ NextPipeline
    \/ Interrupt

SpecAbort == CollectInit /\ [][NextAbort]_vars

----------------------------------------------------------------------------
(* Properties of deduplicate_papers *)

\* a call of deduplicate_papers has returned
Returned == pc = "returned"

\* the call that returned was given the list the call before it returned
SecondRun == Returned /\ prev_out # None /\ inp = prev_out

\* C1: idempotence.  When deduplicate_papers is run on the list a call of
\* deduplicate_papers returned, it returns that list again: no record is
\* removed and none is replaced.
C1_Idempotent == SecondRun => papers = inp

\* the identifier pass has just run: pass_input is the list it was given and
\* papers the list it returned
AfterDoiPass == pc = "title"

HasDoi(oid) == Truthy(heap[oid].doi)
NoDoi(oid) == ~Truthy(heap[oid].doi)
SameDoi(a, b) ==
    HasDoi(a) /\ HasDoi(b) /\ NormalizedDoiOf[heap[a].doi] = NormalizedDoiOf[heap[b].doi]

\* the members of list that share the normalized DOI of oid, in list order
DoiGroup(list, oid) ==
    LET InGroup(other) == SameDoi(oid, other)
    IN SelectSeq(list, InGroup)

C3_UniqueNormalizedDoi ==
    /\ (Returned \/ AfterDoiPass) =>
           \A i, j \in 1..Len(papers) : i # j => ~SameDoi(papers[i], papers[j])
    /\ AfterDoiPass => SelectSeq(papers, NoDoi) = SelectSeq(pass_input, NoDoi)

\* a call returned whose input held one DOI in two spellings and a record
\* without DOI, which is in the output
C3_Witness ==
    /\ Returned
    /\ calls = 1
    /\ \E i, j \in 1..Len(inp) :
           SameDoi(inp[i], inp[j]) /\ heap[inp[i]].doi # heap[inp[j]].doi
    /\ \E k \in 1..Len(papers) : NoDoi(papers[k])

\* C4: the list deduplicate_papers returns never holds two records whose
\* normalized titles have a similarity of 0.85 or more.
C4_NoSimilarTitlesInOutput ==
    Returned =>
        \A i, j \in 1..Len(papers) : i # j =>
            TitleSimilarityOf[<<heap[papers[i]].title, heap[papers[j]].title>>]
                < TitleSimilarityThreshold

\* the author+title pass has just run on pass_input
AfterAuthorTitlePass == pc = "preprint"

\* title similarity, in percent, and author similarity, as a fraction, of two
\* records
TitleSim(a, b) == TitleSimilarityOf[<<heap[a].title, heap[b].title>>]
AuthorSim(a, b) == AuthorSimilarityOf[<<heap[a].authors, heap[b].authors>>]

\* author similarity >= 0.7 and title similarity >= 0.70
JointlySimilar(a, b) == 10 * AuthorSim(a, b)[1] >= 7 * AuthorSim(a, b)[2] /\ TitleSim(a, b) >= 70

\* C5: the author+title pass treats an incoming record as a duplicate of an
\* accepted one exactly when their author similarity is >= 0.7 and their title
\* similarity is >= 0.70.  It returns its input unchanged exactly when no two
\* records of the input are that similar, it never returns more records than
\* it was given, and of two records it keeps one if they are that similar and
\* both if they are not.
C5_JointGating ==
    AfterAuthorTitlePass =>
        /\ Len(papers) <= Len(pass_input)
        /\ papers = pass_input <=>
               \A i, j \in 1..Len(pass_input) :
                   i < j => ~JointlySimilar(pass_input[i], pass_input[j])
        /\ Len(pass_input) = 2 =>
               Len(papers) = (IF JointlySimilar(pass_input[1], pass_input[2]) THEN 1 ELSE 2)

\* the pass was given three records: two of author similarity >= 0.7 and title
\* similarity 0.69, both kept, and two of author similarity >= 0.7 and title
\* similarity 0.70, of which one is kept
C5_Witness ==
    /\ AfterAuthorTitlePass
    /\ Len(pass_input) = 3
    /\ Len(papers) = 2
    /\ \E i, j \in 1..3 :
           /\ 10 * AuthorSim(pass_input[i], pass_input[j])[1]
                  >= 7 * AuthorSim(pass_input[i], pass_input[j])[2]
           /\ TitleSim(pass_input[i], pass_input[j]) = 69
           /\ \E k, l \in 1..2 : papers[k] = pass_input[i] /\ papers[l] = pass_input[j]
    /\ \E i, j \in 1..3 :
           /\ i < j
           /\ JointlySimilar(pass_input[i], pass_input[j])
           /\ TitleSim(pass_input[i], pass_input[j]) = 70
           /\ \E k \in 1..2 : papers[k] \in {pass_input[i], pass_input[j]}
           /\ \E m \in {i, j} : \A k \in 1..2 : papers[k] # pass_input[m]

\* the version-collapse pass has run on pass_input (and nothing after it)
AfterPreprintPass == pc \in {"log", "returned", "raised"}

SameKey(a, b) == PaperKey(heap[a]) = PaperKey(heap[b])

\* C6: after the version-collapse pass, and so in the list deduplicate_papers
\* returns, no two records have the same composite key, and every record that
\* entered the pass has exactly one record of its key in the result, which is
\* one of the records that entered the pass.
C6_OneSurvivorPerKey ==
    AfterPreprintPass =>
        /\ \A i, j \in 1..Len(papers) : i # j => ~SameKey(papers[i], papers[j])
        /\ \A i \in 1..Len(pass_input) :
               \E k \in 1..Len(papers) :
                   /\ SameKey(papers[k], pass_input[i])
                   /\ \E m \in 1..Len(pass_input) : pass_input[m] = papers[k]

\* a call returned in which the version-collapse pass was given two records
\* of different titles and the same composite key
C6_Witness ==
    /\ Returned
    /\ \E i, j \in 1..Len(pass_input) :
           /\ i < j
           /\ SameKey(pass_input[i], pass_input[j])
           /\ heap[pass_input[i]].title # heap[pass_input[j]].title
    /\ Len(papers) < Len(pass_input)

\* the title pass has just run on pass_input
AfterTitlePass == pc = "author_title"

\* the pass that ran last was given two records and judged them duplicates
PairResolved ==
    /\ AfterTitlePass \/ AfterAuthorTitlePass
    /\ Len(pass_input) = 2
    /\ Len(papers) = 1

\* The five criteria of the cascade, each as a rank in which the greater wins.
\* Two records differ on the year criterion when both have a year and the
\* years are different.
CriterionRank(c, p) ==
    CASE c = 1 -> IF Truthy(p.doi) THEN 1 ELSE 0
      [] c = 2 -> IF IsPreprint(p) THEN 0 ELSE 1
      [] c = 3 -> IF p.citation_count = NoInt THEN 0 ELSE p.citation_count
      [] c = 4 -> p.year
      [] c = 5 -> IF p.abstract # "" THEN 1 ELSE 0

Differ(c, p, q) ==
    /\ CriterionRank(c, p) # CriterionRank(c, q)
    /\ c = 4 => p.year # NoInt /\ q.year # NoInt

\* the first criterion on which two records differ (6: they tie on all five)
FirstDifference(p, q) ==
    IF \E c \in 1..5 : Differ(c, p, q)
    THEN CHOOSE c \in 1..5 : Differ(c, p, q) /\ \A b \in 1..(c - 1) : ~Differ(b, p, q)
    ELSE 6

\* the year criterion is reached with exactly one year present: the case in
\* which "more recent" does not say which record wins
YearOpen(p, q) ==
    /\ \A c \in 1..3 : ~Differ(c, p, q)
    /\ (p.year = NoInt) # (q.year = NoInt)

Count(list, oid) == Cardinality({k \in 1..Len(list) : list[k] = oid})

\* C8: deduplication is a pure reduction.  No step of deduplicate_papers
\* changes a field of a record, and every object of the list each pass leaves,
\* and so of the list the call returns, is an object of the list the call was
\* given, no more often than it is there.
C8_PureReduction ==
    [][/\ heap' = heap
       /\ pc' \in {"title", "author_title", "preprint", "log", "returned"} =>
              \A k \in 1..Len(papers') : Count(papers', papers'[k]) <= Count(inp', papers'[k])]_vars

\* a call returned some of the records it was given, not all, the last record
\* of the input among them and the first one not
C8_Witness ==
    /\ Returned
    /\ Len(inp) = 3
    /\ Len(papers) = 2
    /\ Count(papers, inp[1]) = 0
    /\ Count(papers, inp[3]) = 1

\* C9 as stated: after every call of deduplicate_papers, on a new engine or on
\* one that has processed batches before, duplicates_found is the size of the
\* call's input minus the size of its output, duplicate_rate is
\* duplicates_found / total_papers_processed and lies in [0, 1], and
\* unique_papers_remaining is the size of the output.
C9_StatisticsConsistent ==
    Returned =>
        LET stats == DeduplicationStats
        IN /\ stats.duplicates_found = Len(inp) - Len(papers)
           /\ stats.duplicate_rate = <<stats.duplicates_found, stats.total_papers_processed>>
           /\ 0 <= stats.duplicate_rate[1]
           /\ stats.duplicate_rate[1] <= stats.duplicate_rate[2]
           /\ stats.unique_papers_remaining = Len(papers)

\* C10: one call of _make_request_with_retry invokes request_func at most 3
\* times; no attempt follows one that did not raise, and the call returns the
\* value of that attempt; when three attempts have raised, the call has raised
\* the exception of the third to its caller.
C10_RetryBound ==
    /\ Len(attempts) <= 3
    /\ \A k \in 1..(Len(attempts) - 1) : attempts[k] \notin Values
    /\ \A k \in 1..Len(attempts) :
           attempts[k] \in Values => rc_pc = "returned" /\ result = attempts[k]
    /\ rc_pc = "returned" => Len(attempts) >= 1 /\ result = attempts[Len(attempts)]
    /\ (Len(attempts) = 3 /\ attempts[3] \notin Values) =>
           rc_pc = "raised" /\ result = attempts[3]
    /\ rc_pc = "raised" => result \in Exceptions \cup Interrupts

\* three attempts raised three different exceptions and the call raised the
\* third
C10_Witness ==
    /\ rc_pc = "raised"
    /\ Len(attempts) = 3
    /\ attempts[1] # attempts[2] /\ attempts[2] # attempts[3] /\ attempts[1] # attempts[3]
    /\ result = attempts[3]
    /\ failed_requests >= 3

----------------------------------------------------------------------------
(* Properties of the collectors *)

\* C11: on one collector, request_func is never invoked (line 53 counts the
\* invocation) less than 1 / rate_limit after its previous invocation, first
\* attempts and retries alike; so the n-th invocation comes at least n - 1
\* intervals after the first, which the first call makes at Epoch: 4.5 seconds
\* for ten invocations at rate_limit = 2.0.
C11_RateLimit ==
    /\ [](total_requests >= 1 =>
             last_request_time - Epoch >= (total_requests - 1) * MinInterval)
    /\ [][(total_requests' = total_requests + 1 /\ total_requests >= 1) =>
             last_request_time' - last_request_time >= MinInterval]_vars

\* ten calls, none retried, each waiting exactly for the interval to elapse:
\* the tenth request starts 4.5 seconds after the first
C11_Witness ==
    /\ request_calls = 10
    /\ total_requests = 10
    /\ successful_requests = 10
    /\ last_request_time - Epoch = 45

\* the call of search_papers has returned: found is the list it returned
SearchReturned == s_pc = "returned"

\* C12: a timeout, a connection reset and an HTTP 5xx answer are transient
\* failures: the collector takes one of them as the outcome of a request (a 5xx
\* response it gives up on, an exception raised to search_papers) only when
\* the request was attempted StopAfterAttempt times.
C12_TransientRetried ==
    response.status \in {"503", "raised"} => Len(attempts) = StopAfterAttempt

\* C13: once the Google Scholar source has answered a request with HTTP 429,
\* the collector issues no further request to it in the run: while that
\* answer is the last the collector received, no request of a search, the
\* same or a later one, is under way.
C13_RateLimitStop == response.status = "429" => s_pc # "await"

\* C14: a search of a GoogleScholarCollector uses one backend.  With the
\* licensed backend enabled and a key given, the one request of the search
\* goes to the licensed endpoint, whatever comes of it; otherwise every request
\* is a page of the HTML search, and a search requests 10 pages at most.
C14_OneBackend ==
    (collector.source = "google_scholar" /\ req.endpoint # "none") =>
        IF collector.use_serpapi /\ collector.serpapi_key \notin {None, ""}
        THEN req.endpoint = "serpapi" /\ search_requests = 1
        ELSE req.endpoint = "scraping" /\ search_requests <= 10

\* the licensed backend is enabled without a key, and the search has scanned
\* ten pages of the HTML search without reaching max_results
C14_Witness ==
    /\ collector.source = "google_scholar"
    /\ collector.use_serpapi
    /\ collector.serpapi_key = ""
    /\ SearchReturned
    /\ req.endpoint = "scraping"
    /\ req.start = 90
    /\ search_requests = 10
    /\ Len(found) < args.max_results

\* C15: a search of arXiv, Semantic Scholar or DOAJ whose requests all gave a
\* page returns max_results records at most, and it stops paging only when
\* it has accepted max_results records or when its last page held fewer items
\* than it requested for it.
C15_PagingStop ==
    (/\ collector.source \in {"arxiv", "semantic_scholar", "doaj"}
     /\ SearchReturned
     /\ response.status = "200"
     /\ response.parsable) =>
        /\ Len(found) <= args.max_results
        /\ Len(found) = args.max_results \/ Len(response.items) < req.size

\* the response received last is the first page of records of the search
FirstPage ==
    /\ response.status = "200"
    /\ response.parsable
    /\ IF collector.source = "pubmed" THEN req.endpoint = "efetch" /\ req.start = 0
       ELSE search_requests = 1

\* C16: whatever the source returns, no collector returns a record whose year
\* is outside year_start..year_end (one below and one above included), and none
\* drops a record because it has no year: a well-formed record without year
\* that opens the first page is the first record of the search.
C16_YearFilter ==
    /\ SearchReturned =>
           \A i \in DOMAIN found :
               found[i].year = NoInt
               \/ (args.year_start <= found[i].year /\ found[i].year <= args.year_end)
    /\ (FirstPage /\ response.items # <<>> /\ response.items[1] = Entry(<<"d">>, NoInt, FALSE)) =>
           (found # <<>> /\ found[1].title = <<"d">> /\ found[1].year = NoInt)

\* an entry that parses: it has a title, and a year in the range or none
WellFormed(entry) ==
    entry \in {Entry(<<"a">>, 2015, FALSE), Entry(<<"d">>, NoInt, FALSE)}

\* C17: an entry whose parsing fails is skipped and nothing else is: when the
\* first page of a search holds such an entry and otherwise entries that
\* parse, the search has accepted the entries that parse, those before and
\* those after it, in page order and up to max_results.
C17_MalformedSkipped ==
    (/\ FirstPage
     /\ \E i \in DOMAIN response.items : response.items[i].malformed
     /\ \A i \in DOMAIN response.items :
            response.items[i].malformed \/ WellFormed(response.items[i])) =>
        LET parsed == SelectSeq(response.items, WellFormed)
        IN /\ Len(found) = Min(Len(parsed), args.max_results)
           /\ \A i \in DOMAIN found :
                  found[i].title = parsed[i].title /\ found[i].year = parsed[i].year

\* a page of arXiv opens with an entry that does not parse, and the entry
\* after it is returned
C17_Witness ==
    /\ collector.source = "arxiv"
    /\ SearchReturned
    /\ FirstPage
    /\ args.max_results = 2
    /\ response.items = << Entry(<<"e">>, 2015, TRUE), Entry(<<"a">>, 2015, FALSE) >>
    /\ Len(found) = 1
    /\ found[1].title = <<"a">>

\* C18: when a request of a search fails for good (its last attempt raises)
\* after earlier requests of the same search were answered, the search returns
\* the records it had accepted from the earlier pages.
C18_PageFailureLocal ==
    [][(/\ s_pc = "await"
        /\ rc_pc = "raised"
        /\ search_requests >= 2
        /\ s_pc' = "returned") => found' = found]_vars

----------------------------------------------------------------------------
(* Properties of collect_papers_for_domain *)

\* the k-th (query, collector) pair of the domain, in the order of the loops
PairAt(k) ==
    [query |-> DOMAIN_QUERIES[domain][((k - 1) \div Len(BuilderCollectors)) + 1],
     source |-> BuilderCollectors[((k - 1) % Len(BuilderCollectors)) + 1].source]

\* C19: collect_papers_for_domain calls the search of every collector once for
\* every query, in order, whatever the calls before did: a search that raises
\* does not end the call, its (query, source) pair contributes no record, the
\* searches after it are made, and no record accumulated is lost.
C19_CollectorIsolation ==
    /\ [](/\ c_pc # "raised"
          /\ \A k \in DOMAIN invoked :
                 /\ invoked[k].query = PairAt(k).query
                 /\ invoked[k].source = PairAt(k).source
                 /\ invoked[k].raised =>
                        \A i \in DOMAIN all_papers :
                            ~(/\ all_papers[i].title[1] = invoked[k].query
                              /\ all_papers[i].source = invoked[k].source)
          /\ c_pc = "returned" =>
                 Len(invoked) = Len(DOMAIN_QUERIES[domain]) * Len(BuilderCollectors))
    /\ [][c_pc = "search" =>
              /\ Len(all_papers') >= Len(all_papers)
              /\ SubSeq(all_papers', 1, Len(all_papers)) = all_papers]_vars

\* the second search raised and the others returned a record each: nine
\* searches were made and eight records are returned
C19_Witness ==
    /\ c_pc = "returned"
    /\ Len(invoked) = 9
    /\ invoked[2].raised
    /\ \A k \in DOMAIN invoked : k # 2 => (~invoked[k].raised /\ Len(invoked[k].papers) = 1)
    /\ Len(all_papers) = 8
    /\ all_papers[2].source = "arxiv"

\* the lists the searches returned, one after the other
RECURSIVE Flatten(_)
Flatten(log) == IF log = <<>> THEN <<>> ELSE log[1].papers \o Flatten(Tail(log))

\* C20: collect_papers_for_domain returns the concatenation of the lists its
\* searches returned, nothing removed and nothing merged, so as many records
\* as the lists hold together; and every record it returns carries the domain
\* it was called with.
C20_RawUnion ==
    c_pc = "returned" =>
        /\ Len(all_papers) = Len(Flatten(invoked))
        /\ \A i \in DOMAIN all_papers :
               /\ all_papers[i].domain = domain
               /\ all_papers[i].title = Flatten(invoked)[i].title
               /\ all_papers[i].source = Flatten(invoked)[i].source

\* every search returned a record: nine records are returned, the first two
\* with the same title from two sources
C20_Witness ==
    /\ c_pc = "returned"
    /\ domain = "periodization"
    /\ Len(all_papers) = 9
    /\ all_papers[1].title = all_papers[2].title
    /\ all_papers[1].source # all_papers[2].source
    /\ all_papers[9].domain = "periodization"

----------------------------------------------------------------------------
(* Properties of run_collection_pipeline *)

\* C21: an Exception raised by a step of a domain does not end the run: the
\* domains of the list are attempted in the order of the list, none is
\* left out, and after the last of them the final report is reached.
C21_RunCompletes ==
    /\ [](/\ p_pc # "failed"
          /\ Len(attempted) <= Len(domains)
          /\ \A k \in DOMAIN attempted : attempted[k] = domains[k])
    /\ <>(p_pc = "report" /\ attempted = domains)

\* the first and the third of four domains failed, and the report is reached
\* with the four domains attempted
C21_Witness ==
    /\ p_pc = "report"
    /\ Len(domains) = 4
    /\ attempted = domains
    /\ failed = {domains[1], domains[3]}

\* C22: when the run is aborted by an interrupt while the queries of a domain
\* are collected, the records collected for that domain so far are the list
\* the deduplication step is given.
C22_PartialKept == p_pc = "aborted" => handed = all_papers

\* C23: no collector emits a record without a title: every record a search
\* has accepted has a title that is not empty.
C23_TitleMandatory == \A i \in DOMAIN found : found[i].title # <<>>

\* C24: whenever no attempt of a request is under way, the attempts counted
\* are the successful and the failed ones together: total_requests =
\* successful_requests + failed_requests, every attempt having added one to
\* total_requests and one to one of the two others.
C24_RequestCounters ==
    rc_pc \in {"idle", "returned", "raised"} =>
        total_requests = successful_requests + failed_requests

\* C25: when two records judged duplicates tie on DOI presence, preprint
\* status and citation count and exactly one of them has a year, the record
\* with the year is the one kept, whatever the abstracts and whichever came
\* first.
C25_AbsentYearLoses ==
    PairResolved /\ YearOpen(heap[pass_input[1]], heap[pass_input[2]]) =>
        heap[papers[1]].year # NoInt

\* "X is strictly preferred to Y": the cascade keeps X against Y and does not
\* keep Y against X
StrictlyPreferred(x, y) == ShouldKeepExisting(x, y) /\ ~ShouldKeepExisting(y, x)

\* C26: strict preference under the pairwise cascade is asymmetric and
\* transitive over the records given to a pass: if A is strictly preferred to
\* B and B to C then A is strictly preferred to C.
C26_StrictPreferenceOrder ==
    AfterTitlePass =>
        \A a, b, c \in 1..Len(pass_input) :
            LET A == heap[pass_input[a]]
                B == heap[pass_input[b]]
                C == heap[pass_input[c]]
            IN /\ StrictlyPreferred(A, B) => ~StrictlyPreferred(B, A)
               /\ StrictlyPreferred(A, B) /\ StrictlyPreferred(B, C) => StrictlyPreferred(A, C)

\* C27: when the version-collapse pass is given a group of exactly two
\* records, the survivor chosen by the weighted score is the record the
\* pairwise cascade keeps with the first member as the existing record and
\* the second as the new one.
C27_ScoreAgreesWithCascade ==
    AfterPreprintPass /\ Len(pass_input) = 2 /\ SameKey(pass_input[1], pass_input[2]) =>
        papers = << IF ShouldKeepExisting(heap[pass_input[1]], heap[pass_input[2]])
                    THEN pass_input[1] ELSE pass_input[2] >>

\* C28: a domain for which every search returned no record is not marked
\* failed by the deduplication step: deduplicate_papers returns the empty
\* list and the run goes on to the later steps of that domain.
C28_EmptyDomainProceeds ==
    [][p_pc = "collect" /\ c_pc = "returned" /\ all_papers = <<>> =>
           p_pc' = "step" /\ domain_index' = domain_index /\ failed' = failed]_vars

\* the request raised after its retries, the status is not 200, or the body
\* does not parse
FailedReply(r) == r.status # "200" \/ ~r.parsable

\* C29: search_papers never raises: when the request raises after all its
\* retries, answers with a status other than 200 or with a body that does not
\* parse, every collector goes on to its next request or returns a list.
C29_SearchNeverRaises ==
    /\ [](s_pc # "raised")
    /\ [][s_pc = "await" /\ s_pc' # "await" /\ FailedReply(response') =>
              s_pc' \in {"loop", "returned"}]_vars

\* a search has returned the empty list after its request raised
C29_Witness ==
    /\ s_pc = "returned"
    /\ rc_pc = "raised"
    /\ response = Raised
    /\ found = <<>>

\* the index of the first item of the ranked list that a request covers: the
\* offset for arXiv and Semantic Scholar, and for DOAJ, addressed by page
\* number and page size, the items of the pages before
FirstIndex(r) == IF r.endpoint = "doaj" THEN (r.start - 1) * r.size ELSE r.start

\* C30: within one search of DOAJ, arXiv or Semantic Scholar the successive
\* requests cover disjoint, contiguous index ranges: each request starts at
\* the index that follows the last index of the request before it.
C30_PagesContiguous ==
    [][/\ s_pc = "await" /\ s_pc' # "await"
       /\ req # NoRequest
       /\ req'.endpoint \in {"doaj", "arxiv", "semantic_scholar"}
       => FirstIndex(req') = FirstIndex(req) + req.size]_vars

====
